---- MODULE Spec2Model ----
(***************************************************************************)
(* Posterus futures (src/src/posterus.js): the Future state machine, its   *)
(* chaining and flattening rules, cancelation (deinit) and the scheduler   *)
(* that defers notifications.  Futures live in an arena (the sequence      *)
(* fut); a future's identity is its index.  Every public call is one       *)
(* action; the calls it makes in turn (mappers, finalizers, nested settle, *)
(* upstream deinit) are computed by the recursive operators below on a     *)
(* record S that threads the whole heap through the call.                  *)
(***************************************************************************)
EXTENDS Integers, Sequences, FiniteSets, TLC

\* Size of the arena: the number of futures a run may construct.
MaxTasks == 3
\* Number of public calls in a run.
MaxOps == 4
MaxFinallyTasks == 4
MaxJunctureTasks == 4
MaxJunctureOps == 4
MaxInputs == 2
\* Future.all over mapped futures: public calls in a run
MaxMappedOps == 3
\* deinit of chains whose mappers return futures: futures and public calls
MaxDeinitTasks == 6
MaxDeinitOps == 2
\* weak branches of one future: futures and public calls
MaxWeakTasks == 4
MaxWeakOps == 4
\* the coroutine driver: futures, public calls, yields of the procedure
MaxFiberTasks == 6
MaxFiberOps == 4
MaxYields == 2
\* the Task implementation: tasks and public calls in a run
MaxTaskObjects == 4
MaxTaskOps == 4

VARIABLES
  fut,          \* the futures: bits_, value_, predecessor_, successor_, weaks_, mapper_, finalizer_
  hist,         \* per future: what has been done to it so far (observation only)
  queue,        \* Scheduler.pending_
  isScheduled,  \* Scheduler.isScheduled_
  asap,         \* host callbacks requested through scheduler.asap and not yet run
  hookThrows,   \* Future.onUnhandledRejection is the default (rethrowing) hook
  capacity,     \* size of the arena in this run
  junctures,    \* the AllJuncture and RaceJuncture objects
  inputs,       \* the list the caller has prepared for Future.all or Future.race
  fibers,       \* the coroutine drivers: iter, out and pending of each fiber call
  tasks,        \* the Task objects of src/posterus.mjs: d, i, m, e
  async,        \* the default Scheduler of src/posterus.mjs: p, s and the host callbacks
  last,         \* the public call made last, and what it met
  ops           \* number of public calls made

vars == <<fut, hist, queue, isScheduled, asap, hookThrows, capacity, junctures, inputs,
          fibers, tasks, async, last, ops>>

(***************************************************************************)
(* Values.  A JavaScript value is undefined, a plain value (n = 0 stands   *)
(* for the falsy ones), an Error object, or a reference to a future.       *)
(***************************************************************************)
Undef == [t |-> "undef", n |-> 0]
Val(k) == [t |-> "val", n |-> k]
Err(k) == [t |-> "err", n |-> k]
Fut(i) == [t |-> "fut", n |-> i]
\* the array held in values_ by juncture k
Arr(k) == [t |-> "arr", n |-> k]
\* what bind() ties a juncture callback to: juncture k and position i
At(k, i) == [t |-> "at", n |-> i, j |-> k]
\* No exception is propagating.
NoExc == [t |-> "none", n |-> 0]

DEINIT_ERROR == Err(1)
CONSUMABLE_ERROR == Err(2)
CYCLIC_ERROR == Err(3)
VALIDATE_ERROR == Err(4)
\* TypeError: a method is called on undefined
TYPE_ERROR == Err(5)

\* JavaScript truthiness, as used by `if (error)` and `error || result`.
Truthy(v) == v.t \in {"err", "fut", "arr", "task"} \/ (v.t = "val" /\ v.n # 0)
Or(a, b) == IF Truthy(a) THEN a ELSE b

isFuture(v) == v.t = "fut"

\* a reference to a Task of src/posterus.mjs
Tsk(i) == [t |-> "task", n |-> i]
isTask(v) == v.t = "task"

\* new Scheduler(), src/posterus.mjs: no task pending, no tick scheduled
NoAsync == [p |-> <<>>, s |-> FALSE, scheduled |-> 0]
isDeinitError(v) == v = DEINIT_ERROR

NoMapper == [k |-> "none", fn |-> "none", arg |-> Undef]
NoFinalizer == [k |-> "none", arg |-> Undef]
alwaysThrow == [k |-> "alwaysThrow", fn |-> "none", arg |-> Undef]

\* new Future()
Future ==
  [ state |-> "Pending", pendingRejection |-> FALSE, consumed |-> FALSE,
    mapping |-> FALSE, value |-> Undef, predecessor |-> 0, successor |-> 0,
    weaks |-> <<>>, mapper |-> NoMapper, finalizer |-> NoFinalizer ]

NoHist ==
  [ settled |-> 0,      \* times the state bits were replaced
    mcalls |-> <<>>,    \* calls of this future's mapper: arguments and outcome
    called |-> <<>>,    \* the mapper of each of those calls
    forced |-> <<>>,    \* what each deinit of it by forceEach threw, if anything
    fcalls |-> <<>>,    \* calls of this future's finalizer: arguments
    hooks |-> 0,        \* calls of onUnhandledRejection with this future
    links |-> 0,        \* times a successor was attached
    deliv |-> 0,        \* times the outcome was forwarded to a successor
    pushes |-> 0,       \* times it was pushed to the scheduler
    recv |-> <<>>,      \* outcomes the weak parent forwarded to this future
    weakOf |-> 0,       \* the future whose weak() made this one
    early |-> FALSE,    \* that future was pending then
    flushed |-> FALSE,  \* finishPending has run on it while settled
    mapped |-> FALSE,   \* map was called on it before that
    deinited |-> FALSE, \* deinit was called on it before that
    peeked |-> FALSE,   \* deref or toPromise was called on it before that
    nested |-> FALSE,   \* it was handed to another future's settle before that
    flats |-> <<>>,     \* futures this one was settled with: slot, future, and
                        \* whether this one held a mapper then
    internal |-> FALSE, \* constructed inside the library: no caller holds it
    reentered |-> <<>>  \* calls its mapper made on it: whether one changed the
                        \* futures or the queue, or threw
  ]

SETTLED(f) == f.state \in {"Error", "Success"}

Throw(S, e) == [S EXCEPT !.exc = e]
Return(S, v) == [S EXCEPT !.ret = v]
Thrown(S) == S.exc # NoExc
\* The call cannot go on: it threw, or the arena is exhausted.
Stop(S) == S.ovf \/ Thrown(S)
\* try {...} finally {...}: the exception of the finally block wins, else the
\* one that was propagating when it was entered.
Restore(S, e) == IF Thrown(S) THEN S ELSE [S EXCEPT !.exc = e]
Clear(S) == [S EXCEPT !.exc = NoExc]

\* new Future(), in the arena
NewFuture(S) ==
  IF Len(S.fut) >= S.cap
  THEN [S EXCEPT !.ovf = TRUE]
  ELSE [S EXCEPT !.fut = Append(@, Future), !.hist = Append(@, NoHist),
                 !.ret = Fut(Len(S.fut) + 1)]

RECURSIVE settle(_, _, _, _)
RECURSIVE callMapper(_, _, _, _, _)
RECURSIVE deinit(_, _)
RECURSIVE finishPending(_, _)
RECURSIVE notifyWeaks(_, _)
RECURSIVE tick(_)
RECURSIVE forceEach(_, _, _, _)
RECURSIVE settleAllJunctureAtIndex(_, _, _, _, _)
RECURSIVE settleRaceJuncture(_, _, _, _)
RECURSIVE AllJunctureDeinit(_, _)
RECURSIVE RaceJunctureDeinit(_, _)
RECURSIVE initAllJuncture(_, _, _)
RECURSIVE initRaceJuncture(_, _, _)
RECURSIVE onDone(_, _, _, _)
RECURSIVE iterNext(_, _, _)
RECURSIVE iterThrow(_, _, _)
RECURSIVE onPendingDone(_, _, _, _)

\* bug: a host callback is requested whether or not one is outstanding
scheduleTickAlways(S) == [S EXCEPT !.sched = TRUE, !.asap = @ + 1]

\* scheduleTick, lines 104-109
scheduleTick(S) ==
  IF ~S.sched THEN [S EXCEPT !.sched = TRUE, !.asap = @ + 1] ELSE S

\* Scheduler.prototype.push
push(S, id) ==
  LET S1 == [S EXCEPT !.queue = Append(@, id), !.pushed = Append(@, id)]
  IN IF Len(S1.queue) # 0 THEN scheduleTick(S1) ELSE S1

scheduleFuture(S, id) == push([S EXCEPT !.hist[id].pushes = @ + 1], id)

\* bug: a settled predecessor notifies at once instead of being scheduled
setupPredecessorSuccessorPairEager(S, p, s) ==
  LET S1 == [S EXCEPT !.fut[p].successor = s, !.fut[s].predecessor = p,
                      !.hist[p].links = @ + 1]
  IN IF SETTLED(S1.fut[p]) THEN finishPending(S1, p) ELSE S1

setupPredecessorSuccessorPair(S, p, s) ==
  LET S1 == [S EXCEPT !.fut[p].successor = s, !.fut[s].predecessor = p,
                      !.hist[p].links = @ + 1]
  IN IF SETTLED(S1.fut[p]) THEN scheduleFuture(S1, p) ELSE S1

\* bug: a consumed future can be mapped again
mapRejectedNever(f) == FALSE

\* map, line 241
mapRejected(f) == f.consumed

\* map, lines 244-247: S holds the new future in S.ret
mapSuccessor(S, id, mapper) ==
  IF S.ovf THEN S
  ELSE Return(setupPredecessorSuccessorPair(
                [S EXCEPT !.fut[S.ret.n].mapper = mapper], id, S.ret.n),
              S.ret)

\* Future.prototype.map
map(S, id, mapper) ==
  IF mapRejected(S.fut[id]) THEN Throw(S, CONSUMABLE_ERROR)
  ELSE mapSuccessor(
         NewFuture([S EXCEPT !.fut[id].consumed = TRUE,
                             !.fut[id].pendingRejection = FALSE,
                             !.hist[id].mapped = @ \/ ~S.hist[id].flushed]),
         id, mapper)

\* The future in S.ret is known to the library or to a mapper only: no caller
\* holds it.
unheld(S) ==
  IF Stop(S) THEN S ELSE [S EXCEPT !.hist[S.ret.n].internal = TRUE]

\* future.map(...) called by the library itself, which keeps the new future
\* to itself
mapInternally(S, id, mapper) == unheld(map(S, id, mapper))

\* Future.from, line 355: S holds the new future in S.ret
fromSettle(S, error, result) ==
  IF S.ovf THEN S ELSE Return(settle(S, S.ret.n, error, result), S.ret)

\* Future.from
from(S, error, result) == fromSettle(NewFuture(S), error, result)

\* Future.from called in a mapper, which returns the new future and keeps no
\* other reference to it
fromInMapper(S, error, result) == unheld(from(S, error, result))

\* The user's function of a mapper, called with x.
callFn(S, fn, arg, x) ==
  CASE fn = "ret" -> Return(S, arg)
    [] fn = "throw" -> Throw(S, arg)
    [] fn = "id" -> Return(S, x)
    [] fn = "rethrow" -> Throw(S, x)
    \* x => Future.fromResult(x)
    [] fn = "fromResult" -> IF isFuture(x) THEN Return(S, x) ELSE fromInMapper(S, Undef, x)
    \* x => Future.fromError(x)
    [] fn = "fromError" -> IF ~Truthy(x) THEN Throw(S, VALIDATE_ERROR) ELSE fromInMapper(S, x, Undef)

mapError(S, m, error, result) ==
  IF Truthy(error) THEN callFn(S, m.fn, m.arg, error) ELSE Return(S, result)

\* bug: the function is called with the error as well
mapResultAlways(S, m, error, result) == callFn(S, m.fn, m.arg, Or(error, result))

mapResult(S, m, error, result) ==
  IF Truthy(error) THEN Throw(S, error) ELSE callFn(S, m.fn, m.arg, result)

\* mapFinally, lines 591-595: S is the state the user's function left
mapFinallyValue(S, error, result) ==
  IF Stop(S) THEN S
  ELSE IF isFuture(S.ret)
       THEN mapInternally(S, S.ret.n, [k |-> "mapResult", fn |-> "ret", arg |-> result])
       ELSE IF Truthy(error) THEN Throw(S, error) ELSE Return(S, result)

mapFinally(S, m, error, result) ==
  mapFinallyValue(callFn(S, m.fn, m.arg, Or(error, result)), error, result)

\* a user's mapper that calls settle or deinit on the future it belongs to
\* and then returns or throws: S is the state when it was called, S1 the
\* state its nested call left
reenterDone(S, S1, id, m, x) ==
  IF S1.ovf THEN S1
  ELSE callFn([S1 EXCEPT !.hist[id].reentered =
                 Append(@, [changed |-> S1.fut # S.fut \/ S1.queue # S.queue
                                          \/ S1.hist # S.hist,
                            threw |-> Thrown(S1)])],
              m.fn, m.arg, x)

reenter(S, id, m, x) ==
  reenterDone(S,
              IF m.call = "settle" THEN settle(S, id, m.with[1], m.with[2])
              ELSE deinit(S, id),
              id, m, x)

\* mapper(error, result): returns in S.ret or throws in S.exc
callMapper(S, id, m, error, result) ==
  CASE m.k = "map" -> callFn(S, m.fn, m.arg, Or(error, result))
    [] m.k = "reenter" -> reenter(S, id, m, Or(error, result))
    [] m.k = "mapError" -> mapError(S, m, error, result)
    [] m.k = "mapResult" -> mapResult(S, m, error, result)
    [] m.k = "finally" -> mapFinally(S, m, error, result)
    [] m.k = "alwaysThrow" -> Throw(S, Or(error, result))
    \* function errorSettle(error, result) {self.settle(error || result)}
    [] m.k = "errorSettle" -> Return(settle(S, m.arg.n, Or(error, result), Undef), Undef)
    \* function valueSettle(error, result) {self.settle(error, result)}
    [] m.k = "valueSettle" -> Return(settle(S, m.arg.n, error, result), Undef)
    \* settleAllJunctureAtIndex.bind(null, all, i)
    [] m.k = "allAt" ->
         Return(settleAllJunctureAtIndex(S, m.arg.j, m.arg.n, error, result), Undef)
    \* settleRaceJuncture.bind(null, race)
    [] m.k = "race" -> Return(settleRaceJuncture(S, m.arg.j, error, result), Undef)
    \* value.map(onPendingDone), fiber.js line 41
    [] m.k = "onPendingDone" -> onPendingDone(S, m.arg.n, error, result)
    \* out.finally(onDone), fiber.js line 63
    [] m.k = "finallyOnDone" ->
         mapFinallyValue(onDone(S, m.arg.n, error, result), error, result)

\* bug: only a mapping future ignores the call
settleIgnoredUnlessSettled(f) == f.mapping

\* bug: a future that is running its mapper accepts the call
settleIgnoredUnlessMapping(f) == SETTLED(f)

\* settle, line 174: a settled or mapping future ignores the call
settleIgnored(f) == SETTLED(f) \/ f.mapping

\* settle, lines 193 and 208: this.predecessor_ = <the future map returned>
settlePredecessor(S, id) ==
  IF Stop(S) THEN S ELSE [S EXCEPT !.fut[id].predecessor = S.ret.n]

\* settle, lines 183-197: a future in the error slot
settleErrorFuture(S, id, e) ==
  IF S.fut[e].consumed THEN Throw(S, CONSUMABLE_ERROR)
  ELSE LET S0 == [S EXCEPT !.hist[e].nested = @ \/ ~S.hist[e].flushed,
                           !.hist[id].flats =
                             Append(@, [slot |-> "error", of |-> e,
                                        mapped |-> S.fut[id].mapper # NoMapper])]
       IN IF S.fut[e].successor = 0 /\ S.fut[id].mapper = NoMapper
          THEN setupPredecessorSuccessorPair(
                 [S0 EXCEPT !.fut[id].mapper = alwaysThrow], e, id)
          ELSE settlePredecessor(
                 mapInternally(S0, e, [k |-> "errorSettle", fn |-> "none", arg |-> Fut(id)]),
                 id)

\* settle, lines 199-212: a future in the result slot
settleResultFuture(S, id, r) ==
  IF S.fut[r].consumed THEN Throw(S, CONSUMABLE_ERROR)
  ELSE LET S0 == [S EXCEPT !.hist[r].nested = @ \/ ~S.hist[r].flushed,
                           !.hist[id].flats =
                             Append(@, [slot |-> "result", of |-> r,
                                        mapped |-> S.fut[id].mapper # NoMapper])]
       IN IF S.fut[r].successor = 0
          THEN setupPredecessorSuccessorPair(S0, r, id)
          ELSE settlePredecessor(
                 mapInternally(S0, r, [k |-> "valueSettle", fn |-> "none", arg |-> Fut(id)]),
                 id)

\* bug: the settled future notifies at once instead of being scheduled
settleTerminalEager(S, id, error, result) ==
  finishPending([S EXCEPT !.fut[id].value = Or(error, result),
                          !.fut[id].state = IF Truthy(error) THEN "Error" ELSE "Success",
                          !.fut[id].pendingRejection = @ \/ Truthy(error),
                          !.hist[id].settled = @ + 1],
                id)

\* bug: an error does not set PENDING_REJECTION
settleTerminalQuiet(S, id, error, result) ==
  scheduleFuture([S EXCEPT !.fut[id].value = Or(error, result),
                           !.fut[id].state = IF Truthy(error) THEN "Error" ELSE "Success",
                           !.hist[id].settled = @ + 1],
                 id)

\* settle, lines 233-236: store the value, flip the state, schedule
settleTerminal(S, id, error, result) ==
  scheduleFuture([S EXCEPT !.fut[id].value = Or(error, result),
                           !.fut[id].state = IF Truthy(error) THEN "Error" ELSE "Success",
                           !.fut[id].pendingRejection = @ \/ Truthy(error),
                           !.hist[id].settled = @ + 1],
                 id)

\* settle, lines 218-229: S is the state the mapper left; what it threw or
\* returned is settled in turn
settleMapped(S, id, error, result) ==
  IF S.ovf THEN S
  ELSE settle([S EXCEPT !.exc = NoExc, !.fut[id].mapping = FALSE,
                        !.hist[id].mcalls =
                          Append(@, [error |-> error, result |-> result,
                                     out |-> [thrown |-> Thrown(S),
                                              v |-> IF Thrown(S) THEN S.exc ELSE S.ret]])],
              id,
              IF Thrown(S) THEN S.exc ELSE Undef,
              IF Thrown(S) THEN Undef ELSE S.ret)

\* bug: the mapper is put back after it was called
restoreMapper(S, id, m) == IF S.ovf THEN S ELSE [S EXCEPT !.fut[id].mapper = m]

settleValueKeepsMapper(S, id, error, result) ==
  IF isFuture(error) THEN settleErrorFuture(S, id, error.n)
  ELSE IF isFuture(result) THEN settleResultFuture(S, id, result.n)
  ELSE IF S.fut[id].mapper # NoMapper
  THEN restoreMapper(
         settleMapped(
           callMapper([S EXCEPT !.fut[id].mapper = NoMapper, !.fut[id].mapping = TRUE,
                              !.hist[id].called = Append(@, S.fut[id].mapper.k)],
                      id, S.fut[id].mapper, error, result),
           id, error, result),
         id, S.fut[id].mapper)
  ELSE settleTerminal(S, id, error, result)

\* settle, lines 180-236: error and result are normalised
settleValue(S, id, error, result) ==
  IF isFuture(error) THEN settleErrorFuture(S, id, error.n)
  ELSE IF isFuture(result) THEN settleResultFuture(S, id, result.n)
  ELSE IF S.fut[id].mapper # NoMapper
  THEN settleMapped(
         callMapper([S EXCEPT !.fut[id].mapper = NoMapper, !.fut[id].mapping = TRUE,
                              !.hist[id].called = Append(@, S.fut[id].mapper.k)],
                    id, S.fut[id].mapper, error, result),
         id, error, result)
  ELSE settleTerminal(S, id, error, result)

\* bug: no check for a future settled with itself
settleUnchecked(S, id, e0, r0) ==
  IF settleIgnored(S.fut[id]) THEN S
  ELSE settleValue(S, id, IF Truthy(e0) THEN e0 ELSE Undef,
                   IF Truthy(e0) THEN Undef ELSE r0)

\* Future.prototype.settle
settle(S, id, e0, r0) ==
  IF settleIgnored(S.fut[id]) THEN S
  ELSE IF e0 = Fut(id) \/ r0 = Fut(id) THEN Throw(S, CYCLIC_ERROR)
  ELSE settleValue(S, id, IF Truthy(e0) THEN e0 ELSE Undef,
                   IF Truthy(e0) THEN Undef ELSE r0)

\* the finalizer function, called with (error, result)
callFinalizer(S, id, fin, error, result) ==
  CASE fin.k = "promise" ->
         \* settleFuturePromise: the promise is rejected or resolved
         [S EXCEPT !.fut[id].pendingRejection = FALSE]
    \* settleAllJunctureAtIndex.bind(null, all, i)
    [] fin.k = "allAt" -> settleAllJunctureAtIndex(S, fin.arg.j, fin.arg.n, error, result)
    \* settleRaceJuncture.bind(null, race)
    [] fin.k = "race" -> settleRaceJuncture(S, fin.arg.j, error, result)
    \* all.deinit.bind(all)
    [] fin.k = "allDeinit" -> AllJunctureDeinit(S, fin.arg.j)
    \* race.deinit.bind(race)
    [] fin.k = "raceDeinit" -> RaceJunctureDeinit(S, fin.arg.j)

finalize(S, id) ==
  LET f == S.fut[id]
      error == IF f.state = "Error" THEN f.value ELSE Undef
      result == IF f.state = "Error" THEN Undef ELSE f.value
  IN IF f.finalizer # NoFinalizer
     THEN callFinalizer([S EXCEPT !.fut[id].finalizer = NoFinalizer,
                                  !.hist[id].fcalls =
                                    Append(@, [error |-> error, result |-> result])],
                        id, f.finalizer, error, result)
     ELSE S

\* Future.onUnhandledRejection(future)
onUnhandledRejection(S, id) ==
  IF S.hook THEN Throw([S EXCEPT !.hist[id].hooks = @ + 1], S.fut[id].value)
  ELSE [S EXCEPT !.hist[id].hooks = @ + 1]

\* bug: the outcome is always forwarded in the result slot
notifySuccessorAsResult(S, id) ==
  LET f == S.fut[id]
  IN IF f.successor # 0
     THEN settle([S EXCEPT !.fut[id].successor = 0,
                           !.fut[id].pendingRejection = FALSE,
                           !.hist[id].deliv = @ + 1],
                 f.successor, Undef, f.value)
     ELSE S

\* finishPending, lines 295-301
notifySuccessor(S, id) ==
  LET f == S.fut[id]
  IN IF f.successor # 0
     THEN settle([S EXCEPT !.fut[id].successor = 0,
                           !.fut[id].pendingRejection = FALSE,
                           !.hist[id].deliv = @ + 1],
                 f.successor,
                 IF f.state = "Error" THEN f.value ELSE Undef,
                 IF f.state = "Error" THEN Undef ELSE f.value)
     ELSE S

\* finishPending, line 304: the loop goes on unless a weak's settle threw
notifyWeaksNext(S, id) == IF Stop(S) THEN S ELSE notifyWeaks(S, id)

\* bug: only the first weak branch is notified
notifyWeaksFirst(S, id) ==
  LET f == S.fut[id]
  IN IF Len(f.weaks) = 0 THEN S
     ELSE settle([S EXCEPT !.fut[id].weaks = <<>>,
                           !.hist[Head(f.weaks)].recv = Append(@, f.value)],
                 Head(f.weaks),
                 IF f.state = "Error" THEN f.value ELSE Undef,
                 IF f.state = "Error" THEN Undef ELSE f.value)

\* bug: the weak branch made last is notified first
notifyWeaksNewestFirst(S, id) ==
  LET f == S.fut[id]
      w == f.weaks[Len(f.weaks)]
  IN IF Len(f.weaks) = 0 THEN S
     ELSE notifyWeaksNext(
            settle([S EXCEPT !.fut[id].weaks = SubSeq(@, 1, Len(@) - 1),
                             !.hist[w].recv = Append(@, f.value)],
                   w,
                   IF f.state = "Error" THEN f.value ELSE Undef,
                   IF f.state = "Error" THEN Undef ELSE f.value),
            id)

\* finishPending, lines 304-308
notifyWeaks(S, id) ==
  LET f == S.fut[id]
  IN IF Len(f.weaks) = 0 THEN S
     ELSE notifyWeaksNext(
            settle([S EXCEPT !.fut[id].weaks = Tail(@),
                             !.hist[Head(f.weaks)].recv = Append(@, f.value)],
                   Head(f.weaks),
                   IF f.state = "Error" THEN f.value ELSE Undef,
                   IF f.state = "Error" THEN Undef ELSE f.value),
            id)

\* finishPending, line 310
finishFinalize(S, id) == IF Stop(S) THEN S ELSE finalize(S, id)

\* finishPending, lines 314-317
finishRejection(S, id) ==
  IF Stop(S) THEN S
  ELSE IF S.fut[id].pendingRejection
       THEN onUnhandledRejection([S EXCEPT !.fut[id].pendingRejection = FALSE], id)
       ELSE S

\* Future.prototype.finishPending
finishPending(S, id) ==
  IF SETTLED(S.fut[id])
  THEN finishRejection(
         finishFinalize(
           notifyWeaksNext(
             notifySuccessor([S EXCEPT !.hist[id].flushed = TRUE], id), id), id), id)
  ELSE finishRejection(S, id)

\* deinit, line 323
deinitIgnored(f) == f.mapping

\* bug: deinit also drops the successor and the weak branches
deinitQuietUnlink(S, id) ==
  IF Stop(S) THEN S
  ELSE [S EXCEPT !.fut[id].pendingRejection = FALSE,
                 !.fut[id].successor = 0, !.fut[id].weaks = <<>>]

\* deinit, line 333
deinitQuiet(S, id) ==
  IF Stop(S) THEN S ELSE [S EXCEPT !.fut[id].pendingRejection = FALSE]

\* bug: the deinit error is passed as the result
deinitSettleAsResult(S, id) ==
  deinitQuiet(IF ~SETTLED(S.fut[id]) THEN settle(S, id, Undef, DEINIT_ERROR) ELSE S, id)

\* deinit, lines 331-334
deinitSettle(S, id) ==
  deinitQuiet(IF ~SETTLED(S.fut[id]) THEN settle(S, id, DEINIT_ERROR, Undef) ELSE S, id)

\* deinit, line 337, in the first finally block
deinitFinalize(S, id) ==
  IF S.ovf THEN S ELSE Restore(finalize(Clear(S), id), S.exc)

\* bug: the predecessor is left alone
deinitPrevPredecessorSkipped(S, prevPredecessor) == S

\* deinit, line 341, in the second finally block
deinitPrevPredecessor(S, prevPredecessor) ==
  IF S.ovf \/ prevPredecessor = 0 THEN S
  ELSE Restore(deinit(Clear(S), prevPredecessor), S.exc)

\* bug: no finally block, an exception skips the new predecessor
deinitNextPredecessorUnlessThrown(S, id) ==
  IF Stop(S) \/ S.fut[id].predecessor = 0 THEN S
  ELSE deinit([S EXCEPT !.fut[id].predecessor = 0], S.fut[id].predecessor)

\* deinit, lines 344-346, in the third finally block
deinitNextPredecessor(S, id) ==
  IF S.ovf \/ S.fut[id].predecessor = 0 THEN S
  ELSE Restore(deinit([S EXCEPT !.exc = NoExc, !.fut[id].predecessor = 0],
                      S.fut[id].predecessor),
               S.exc)

\* Future.prototype.deinit
deinit(S, id) ==
  IF deinitIgnored(S.fut[id]) THEN S
  ELSE deinitNextPredecessor(
         deinitPrevPredecessor(
           deinitFinalize(
             deinitSettle([S EXCEPT !.fut[id].predecessor = 0,
                                    !.hist[id].deinited = @ \/ ~S.hist[id].flushed],
                          id),
             id),
           S.fut[id].predecessor),
         id)

\* bug: the branch holds on to its parent as a mapped future does
weakAddStrong(S, id) ==
  IF S.ovf THEN S
  ELSE Return(scheduleFuture([S EXCEPT !.fut[id].weaks = Append(@, S.ret.n),
                                       !.fut[S.ret.n].predecessor = id,
                                       !.hist[S.ret.n].weakOf = id,
                                       !.hist[S.ret.n].early = ~SETTLED(S.fut[id])],
                             id),
              S.ret)

\* weak, lines 266-270: S holds the new future in S.ret
weakAdd(S, id) ==
  IF S.ovf THEN S
  ELSE Return(scheduleFuture([S EXCEPT !.fut[id].weaks = Append(@, S.ret.n),
                                       !.hist[S.ret.n].weakOf = id,
                                       !.hist[S.ret.n].early = ~SETTLED(S.fut[id])],
                             id),
              S.ret)

\* Future.prototype.weak
weak(S, id) == weakAdd(NewFuture(S), id)

\* Future.prototype.deref
deref(S, id) ==
  IF S.fut[id].state = "Error"
  THEN Throw([S EXCEPT !.fut[id].pendingRejection = FALSE,
                       !.hist[id].peeked = @ \/ ~S.hist[id].flushed],
             S.fut[id].value)
  ELSE Return([S EXCEPT !.hist[id].peeked = @ \/ ~S.hist[id].flushed], S.fut[id].value)

\* setupFinalizer
setupFinalizer(S, id, fin) ==
  IF SETTLED(S.fut[id])
  THEN scheduleFuture([S EXCEPT !.fut[id].finalizer = fin], id)
  ELSE [S EXCEPT !.fut[id].finalizer = fin]

\* mapFutureToPromise
mapFutureToPromise(S, id) ==
  IF S.fut[id].finalizer = NoFinalizer
  THEN setupFinalizer(S, id, [k |-> "promise", arg |-> Undef])
  ELSE mapInternally(S, id, [k |-> "map", fn |-> "ret", arg |-> Undef])

\* Future.prototype.toPromise
toPromise(S, id) ==
  IF S.fut[id].consumed THEN Throw(S, CONSUMABLE_ERROR)
  ELSE IF SETTLED(S.fut[id])
       THEN [S EXCEPT !.fut[id].pendingRejection = FALSE,
                      !.hist[id].peeked = @ \/ ~S.hist[id].flushed]
       ELSE mapFutureToPromise(
              [S EXCEPT !.fut[id].pendingRejection = FALSE,
                        !.hist[id].peeked = @ \/ ~S.hist[id].flushed],
              id)

\* bug: a tick that throws does not ask the host for another one
tickNextAbandon(S) ==
  IF S.ovf \/ Thrown(S) THEN S ELSE tick(S)

\* bug: a tick flushes one future and leaves the rest to the host callback
tickNextLater(S) ==
  IF S.ovf THEN S
  ELSE IF Len(S.queue) # 0 THEN scheduleTick(S) ELSE S

\* tick, lines 92-95: S is the state finishPending left
tickNext(S) ==
  IF S.ovf THEN S
  ELSE IF Thrown(S)
       THEN (IF Len(S.queue) # 0 THEN scheduleTick(S) ELSE S)
       ELSE tick(S)

\* bug: the future pushed last is flushed first
tickNewestFirst(S) ==
  IF Len(S.queue) = 0 THEN S
  ELSE tickNext(finishPending([S EXCEPT !.queue = SubSeq(@, 1, Len(@) - 1),
                                        !.log = Append(@, S.queue[Len(S.queue)])],
                              S.queue[Len(S.queue)]))

\* Scheduler.prototype.tick
tick(S) ==
  IF Len(S.queue) = 0 THEN S
  ELSE tickNext(finishPending([S EXCEPT !.queue = Tail(@),
                                        !.log = Append(@, Head(S.queue))],
                              Head(S.queue)))

\* scheduledTick: the host runs the callback it was asked for
scheduledTick(S) == tick([S EXCEPT !.sched = FALSE, !.asap = @ - 1])

(***************************************************************************)
(* Future.all and Future.race.  A juncture keeps future_, values_ and      *)
(* pending_; live says that values_ still refers to the array, whose       *)
(* content stays in values.  out and input remember the output future and  *)
(* the list the caller passed, short that an input's error settled the     *)
(* juncture, and waiting the inputs that were pending then, each with its  *)
(* mapper and the calls that mapper had had (observation only).            *)
(***************************************************************************)
Juncture(kind, future, values) ==
  [ kind |-> kind, future |-> future, values |-> values, live |-> TRUE,
    pending |-> 0, out |-> future, input |-> values, short |-> FALSE,
    waiting |-> {} ]

\* values_, as forceDeinitFutures sees it: nothing unless it is an array
Values(j) == IF j.live THEN j.values ELSE <<>>

\* forceEach, lines 680-682: S is the state deinitFuture left
forceEachNext(S, list, i, err) ==
  IF S.ovf THEN S
  ELSE forceEach(IF isFuture(list[i])
                 THEN [Clear(S) EXCEPT !.hist[list[i].n].forced = Append(@, S.exc)]
                 ELSE Clear(S),
                 list, i + 1, IF Thrown(S) THEN S.exc ELSE err)

\* bug: the loop stops at the first deinit that throws
forceEachUntilThrow(S, list, i, err) ==
  IF i > Len(list) \/ err # NoExc THEN (IF err # NoExc THEN Throw(S, err) ELSE S)
  ELSE forceEachNext(IF isFuture(list[i]) THEN deinit(S, list[i].n) ELSE S,
                     list, i, err)

\* forceEach(list, deinitFuture) from position i on; err is the error caught
\* last
forceEach(S, list, i, err) ==
  IF i > Len(list) THEN (IF err # NoExc THEN Throw(S, err) ELSE S)
  ELSE forceEachNext(IF isFuture(list[i]) THEN deinit(S, list[i].n) ELSE S,
                     list, i, err)

\* bug: the futures of the list are left alone
forceDeinitFuturesSkipped(S, list) == S

\* forceDeinitFutures, after a statement that left S
forceDeinitFutures(S, list) ==
  IF Stop(S) THEN S ELSE forceEach(S, list, 1, NoExc)

\* quietlyConsume
quietlyConsume(S, id) == [S EXCEPT !.fut[id].consumed = TRUE]

\* new AllJuncture(future, values) / new RaceJuncture(future, values): S holds
\* the new future in S.ret
NewJuncture(S, kind, values) ==
  IF S.ovf THEN S
  ELSE [S EXCEPT !.junc = Append(@, Juncture(kind, S.ret.n, values))]

\* the input futures that are pending in S
Waiting(S, list) ==
  {[t |-> list[i].n, mapper |-> S.fut[list[i].n].mapper.k,
    calls |-> Len(S.hist[list[i].n].mcalls)] :
     i \in {i \in 1 .. Len(list) : isFuture(list[i]) /\ S.fut[list[i].n].state = "Pending"}}

\* settleAllJuncture
settleAllJuncture(S, k, error) ==
  LET all == S.junc[k]
      S1 == [S EXCEPT !.junc[k].future = 0, !.junc[k].live = FALSE]
  IN IF all.future = 0 THEN Throw(S1, TYPE_ERROR)
     ELSE IF Truthy(error)
          THEN forceDeinitFutures(settle([S1 EXCEPT !.junc[k].short = TRUE,
                                                    !.junc[k].waiting = Waiting(S, all.input)],
                                         all.future, error, Undef),
                                  Values(all))
          ELSE settle(S1, all.future, Undef, IF all.live THEN Arr(k) ELSE Undef)

\* settleAllJunctureAtIndex, lines 462-468: S is the state after the slot was
\* counted and filled
settleAllJunctureAtIndexDone(S, k, error) ==
  IF Truthy(error) \/ S.junc[k].pending = 0
  THEN settleAllJuncture(S, k, IF Truthy(error) THEN error ELSE Undef)
  ELSE S

\* bug: results are stored in the order they arrive
settleAllJunctureAtIndexArrival(S, k, i, error, result) ==
  IF ~S.junc[k].live THEN S
  ELSE settleAllJunctureAtIndexDone(
         [S EXCEPT !.junc[k].pending = @ - 1,
                   !.junc[k].values[Len(S.junc[k].values) + 1 - S.junc[k].pending] =
                     IF Truthy(error) THEN @ ELSE result],
         k, error)

settleAllJunctureAtIndex(S, k, i, error, result) ==
  IF ~S.junc[k].live THEN S
  ELSE settleAllJunctureAtIndexDone(
         [S EXCEPT !.junc[k].pending = @ - 1,
                   !.junc[k].values[i] = IF Truthy(error) THEN @ ELSE result],
         k, error)

\* bug: the juncture lets go of its inputs without deiniting them
AllJunctureDeinitForget(S, k) ==
  [S EXCEPT !.junc[k].future = 0, !.junc[k].live = FALSE]

\* AllJuncture.prototype.deinit
AllJunctureDeinit(S, k) ==
  forceDeinitFutures([S EXCEPT !.junc[k].future = 0, !.junc[k].live = FALSE],
                     Values(S.junc[k]))

\* initAllJuncture, lines 445-446: S holds the future map returned in S.ret
initAllJunctureMapped(S, k, i) ==
  IF Stop(S) THEN S
  ELSE [S EXCEPT !.junc[k].values[i] = S.ret, !.junc[k].pending = @ + 1]

\* initAllJuncture, lines 421-446: one pass of the loop, for a value that is not
\* a future in Error
initAllJunctureValue(S, k, i, value) ==
  IF ~isFuture(value) THEN S
  ELSE IF S.fut[value.n].consumed THEN Throw(S, CONSUMABLE_ERROR)
  ELSE IF S.fut[value.n].state = "Success"
       THEN [quietlyConsume(S, value.n) EXCEPT !.junc[k].values[i] = S.fut[value.n].value]
  ELSE IF S.fut[value.n].finalizer = NoFinalizer
       THEN setupFinalizer([S EXCEPT !.junc[k].pending = @ + 1], value.n,
                           [k |-> "allAt", arg |-> At(k, i)])
  ELSE initAllJunctureMapped(
         mapInternally(S, value.n, [k |-> "allAt", fn |-> "none", arg |-> At(k, i)]),
         k, i)

\* initAllJuncture, from position i on
initAllJuncture(S, k, i) ==
  IF Stop(S) THEN S
  ELSE IF i > Len(S.junc[k].values) /\ S.junc[k].pending # 0
       THEN [S EXCEPT !.fut[S.junc[k].future].finalizer =
                        [k |-> "allDeinit", arg |-> At(k, 0)]]
  ELSE IF \/ i > Len(S.junc[k].values)
          \/ /\ isFuture(S.junc[k].values[i])
             /\ ~S.fut[S.junc[k].values[i].n].consumed
             /\ S.fut[S.junc[k].values[i].n].state = "Error"
       THEN settleAllJuncture(S, k, IF i > Len(S.junc[k].values) THEN Undef
                                    ELSE S.junc[k].values[i])
  ELSE initAllJuncture(initAllJunctureValue(S, k, i, S.junc[k].values[i]), k, i + 1)

\* Future.all, line 379, and Future.race, line 386: S is the state the
\* initialisation left; when it threw, no caller gets hold of the new future
allReturn(S, future) ==
  IF S.ovf THEN S
  ELSE IF Thrown(S) THEN [S EXCEPT !.hist[future.n].internal = TRUE]
  ELSE Return(S, future)

\* Future.all
all(S, values) ==
  allReturn(initAllJuncture(NewJuncture(NewFuture(S), "all", values),
                            Len(S.junc) + 1, 1),
            Fut(Len(S.fut) + 1))

\* bug: the losing inputs are left alone
settleRaceJunctureOnly(S, k, error, result) ==
  LET race == S.junc[k]
      S1 == [S EXCEPT !.junc[k].future = 0, !.junc[k].live = FALSE]
  IN IF race.future = 0 THEN S1
     ELSE settle(S1, race.future, error, result)

\* settleRaceJuncture
settleRaceJuncture(S, k, error, result) ==
  LET race == S.junc[k]
      S1 == [S EXCEPT !.junc[k].future = 0, !.junc[k].live = FALSE]
  IN IF race.future = 0 THEN S1
     ELSE forceDeinitFutures(settle(S1, race.future, error, result), Values(race))

\* RaceJuncture.prototype.deinit
RaceJunctureDeinit(S, k) ==
  forceDeinitFutures([S EXCEPT !.junc[k].future = 0, !.junc[k].live = FALSE],
                     Values(S.junc[k]))

\* initRaceJuncture, lines 537-538: S holds the future map returned in S.ret
initRaceJunctureMapped(S, k, i) ==
  IF Stop(S) THEN S
  ELSE [S EXCEPT !.junc[k].values[i] = S.ret, !.junc[k].pending = @ + 1]

\* initRaceJuncture, lines 530-538: one pass of the loop, for a pending future
initRaceJunctureValue(S, k, i, value) ==
  IF S.fut[value.n].finalizer = NoFinalizer
  THEN setupFinalizer([S EXCEPT !.junc[k].pending = @ + 1], value.n,
                      [k |-> "race", arg |-> At(k, 0)])
  ELSE initRaceJunctureMapped(
         mapInternally(S, value.n, [k |-> "race", fn |-> "none", arg |-> At(k, 0)]),
         k, i)

\* initRaceJuncture, lines 511-528 and 545-547: the calls of settleJuncture with
\* nothing, with a value that is not a future, or with a settled future
initRaceJunctureSettle(S, k, i) ==
  LET values == S.junc[k].values
  IN IF i > Len(values) THEN settleRaceJuncture(S, k, Undef, Undef)
     ELSE IF ~isFuture(values[i]) THEN settleRaceJuncture(S, k, Undef, values[i])
     ELSE IF S.fut[values[i].n].state = "Error"
          THEN settleRaceJuncture(S, k, values[i], Undef)
          ELSE settleRaceJuncture(quietlyConsume(S, values[i].n), k, Undef,
                                  S.fut[values[i].n].value)

\* initRaceJuncture, from position i on
initRaceJuncture(S, k, i) ==
  IF Stop(S) THEN S
  ELSE IF i > Len(S.junc[k].values) /\ S.junc[k].pending # 0
       THEN [S EXCEPT !.fut[S.junc[k].future].finalizer =
                        [k |-> "raceDeinit", arg |-> At(k, 0)]]
  ELSE IF i <= Len(S.junc[k].values) /\ isFuture(S.junc[k].values[i])
            /\ S.fut[S.junc[k].values[i].n].consumed
       THEN Throw(S, CONSUMABLE_ERROR)
  ELSE IF i <= Len(S.junc[k].values) /\ isFuture(S.junc[k].values[i])
            /\ S.fut[S.junc[k].values[i].n].state = "Pending"
       THEN initRaceJuncture(initRaceJunctureValue(S, k, i, S.junc[k].values[i]),
                             k, i + 1)
  ELSE initRaceJunctureSettle(S, k, i)

\* Future.race
race(S, values) ==
  allReturn(initRaceJuncture(NewJuncture(NewFuture(S), "race", values),
                             Len(S.junc) + 1, 1),
            Fut(Len(S.fut) + 1))

(***************************************************************************)
(* The coroutine driver (src/lib/fiber.js), on the futures above.  The     *)
(* procedure is a generator of the shape                                   *)
(*   function* () {x = yield v1; ...; x = yield vn; return r}              *)
(* where a yield may stand in try {...} catch (e) {x = e}, and the end is  *)
(* return r, return x (the value received last) or throw e.  iter keeps    *)
(* the position of the generator: pc is the yield it is suspended at (0    *)
(* before the first next), done that it has finished, returned that        *)
(* iter.return() finished it; got lists what each resumption handed in     *)
(* (observation only).                                                     *)
(***************************************************************************)
Iterator(prog, end) ==
  [ prog |-> prog, end |-> end, pc |-> 0, done |-> FALSE, returned |-> FALSE,
    got |-> <<>> ]

\* the {value, done} object of the iterator protocol
Step(value, done) == [t |-> "step", value |-> value, done |-> done]

\* the generator runs on from its yield: to the next yield, or to its end
resumeEnd(S, k, v) ==
  LET end == S.fib[k].iter.end
  IN IF end.kind = "throw" THEN Throw(S, end.v)
     ELSE Return(S, Step(IF end.kind = "last" THEN v ELSE end.v, TRUE))

resume(S, k, how, v) ==
  IF S.fib[k].iter.pc + 1 > Len(S.fib[k].iter.prog)
  THEN resumeEnd([S EXCEPT !.fib[k].iter.pc = @ + 1, !.fib[k].iter.done = TRUE,
                           !.fib[k].iter.got = Append(@, [how |-> how, v |-> v])],
                 k, v)
  ELSE Return([S EXCEPT !.fib[k].iter.pc = @ + 1,
                        !.fib[k].iter.got = Append(@, [how |-> how, v |-> v])],
              Step(S.fib[k].iter.prog[S.fib[k].iter.pc + 1].yield, FALSE))

\* iter.next(input)
next(S, k, input) ==
  IF S.fib[k].iter.done THEN Return(S, Step(Undef, TRUE))
  ELSE resume(S, k, "next", input)

\* iter.throw(error): caught at the yield if it stands in a try block
throw(S, k, error) ==
  IF S.fib[k].iter.done THEN Throw(S, error)
  ELSE IF S.fib[k].iter.pc # 0 /\ S.fib[k].iter.prog[S.fib[k].iter.pc].catch
       THEN resume(S, k, "catch", error)
       ELSE Throw([S EXCEPT !.fib[k].iter.done = TRUE], error)

\* iter.return()
return(S, k) ==
  IF S.fib[k].iter.done THEN Return(S, Step(Undef, TRUE))
  ELSE Return([S EXCEPT !.fib[k].iter.done = TRUE, !.fib[k].iter.returned = TRUE],
              Step(Undef, TRUE))

\* onDone, lines 18-19
onDoneReturn(S, k) ==
  IF Stop(S) THEN S
  ELSE Return(return([S EXCEPT !.fib[k].pending = 0], k), Undef)

\* onDone, line 17
onDoneDeinit(S, k) ==
  IF Stop(S) THEN S
  ELSE onDoneReturn(IF S.fib[k].pending # 0 THEN deinit(S, S.fib[k].pending) ELSE S, k)

\* function onDone(error, value), lines 14-20
onDone(S, k, error, value) ==
  onDoneDeinit(settle(S, S.fib[k].out,
                      IF Truthy(error) THEN error ELSE Undef,
                      IF Truthy(error) THEN Undef ELSE value),
               k)

\* onIterNext, line 41: S is the state value.map(onPendingDone) left
onIterNextPending(S, k) ==
  IF Stop(S) THEN S ELSE Return([S EXCEPT !.fib[k].pending = S.ret.n], Undef)

\* function onIterNext({value, done}), lines 32-52
onIterNext(S, k, step) ==
  IF step.done THEN onDone(S, k, Undef, step.value)
  ELSE IF isFuture(step.value)
       THEN onIterNextPending(
              mapInternally(S, step.value.n,
                            [k |-> "onPendingDone", fn |-> "none", arg |-> Val(k)]),
              k)
       ELSE iterNext(S, k, step.value)

\* the try and catch blocks of iterNext and iterThrow: S is the state
\* iter.next or iter.throw left
iterCaught(S, k) ==
  IF S.ovf \/ ~Thrown(S) THEN S ELSE onDone(Clear(S), k, S.exc, Undef)

iterTried(S, k) ==
  iterCaught(IF Stop(S) THEN S ELSE onIterNext(S, k, S.ret), k)

\* function iterNext(input), lines 22-25
iterNext(S, k, input) == iterTried(next(S, k, input), k)

\* function iterThrow(error), lines 27-30
iterThrow(S, k, error) == iterTried(throw(S, k, error), k)

\* function onPendingDone(error, value), lines 54-58
onPendingDone(S, k, error, value) ==
  IF Truthy(error) THEN iterThrow([S EXCEPT !.fib[k].pending = 0], k, error)
  ELSE iterNext([S EXCEPT !.fib[k].pending = 0], k, value)

\* fiber, line 63: S is the state out.finally(onDone) left
fiberReturned(S, k) ==
  IF Stop(S) THEN S ELSE [S EXCEPT !.fib[k].ret = S.ret.n]

\* fiber, lines 61-63: S is the state the first iterNext left
fiberFinally(S, k) ==
  IF Stop(S) THEN S
  ELSE fiberReturned(map(S, S.fib[k].out,
                         [k |-> "finallyOnDone", fn |-> "none", arg |-> Val(k)]),
                     k)

\* fiber, lines 11-12: S holds the new future out in S.ret
fiberOut(S, iter) ==
  IF S.ovf THEN S
  ELSE fiberFinally(
         iterNext([S EXCEPT !.fib = Append(@, [iter |-> iter, out |-> S.ret.n,
                                               pending |-> 0, ret |-> 0]),
                            !.hist[S.ret.n].internal = TRUE],
                  Len(S.fib) + 1, Undef),
         Len(S.fib) + 1)

\* function fiber(iter)
fiber(S, iter) == fiberOut(NewFuture(S), iter)

(***************************************************************************)
(* The Task implementation (src/posterus.mjs).  A task keeps d (done), i   *)
(* (the inner task it waits for), m (its mappers) and e (its deiniters);   *)
(* the one-function, array and Que forms of m and e are the sequence they  *)
(* hold.  A task stores no outcome: done runs the mappers at once.  The    *)
(* operators thread a record T with the tasks and the default scheduler.   *)
(* calls, dones and deinits are observation only: the mapper calls made    *)
(* on the task with what went in and what came out, and the number of      *)
(* done and deinit calls that found the task not done.                     *)
(***************************************************************************)
MAP_DONE_ERROR == Err(6)
ONDEINIT_DONE_ERROR == Err(7)
EXPECTED_ERROR == Err(8)

Task ==
  [ d |-> FALSE, i |-> Undef, m |-> <<>>, e |-> <<>>,
    calls |-> <<>>, dones |-> 0, deinits |-> 0 ]

\* new Task(), in the arena
NewTask(T) ==
  IF Len(T.tasks) >= T.cap
  THEN [T EXCEPT !.ovf = TRUE]
  ELSE [T EXCEPT !.tasks = Append(@, Task), !.ret = Tsk(Len(T.tasks) + 1)]

RECURSIVE Task_done(_, _, _, _)
RECURSIVE Task_deinit(_, _)
RECURSIVE doneLoop(_, _, _, _)
RECURSIVE deinitLoop(_, _)
RECURSIVE deinitTasksFrom(_, _, _)

maybeThrow(T, err) == IF Truthy(err) THEN Throw(T, err) ELSE T

\* Task.prototype.map
Task_map(T, id, fun) ==
  IF T.tasks[id].d THEN Throw(T, MAP_DONE_ERROR)
  ELSE Return([T EXCEPT !.tasks[id].m = Append(@, fun)], Tsk(id))

\* Task.prototype.onDeinit
Task_onDeinit(T, id, fun) ==
  IF T.tasks[id].d THEN Throw(T, ONDEINIT_DONE_ERROR)
  ELSE Return([T EXCEPT !.tasks[id].e = Append(@, fun)], Undef)

setInner(T, outer, innerNext) ==
  IF isTask(T.tasks[outer].i)
  THEN Task_deinit([T EXCEPT !.tasks[outer].i = innerNext], T.tasks[outer].i.n)
  ELSE [T EXCEPT !.tasks[outer].i = innerNext]

clearInner(T, outer) == setInner(T, outer, Undef)

\* linkInnerTask and linkInnerTaskErr: T is the state inner.map left
linkInner(T, outer) == IF Stop(T) THEN T ELSE setInner(T, outer, T.ret)

linkInnerTask(T, outer, inner) ==
  linkInner(Task_map(T, inner, [k |-> "transferTaskResult", task |-> outer]), outer)

linkInnerTaskErr(T, outer, inner) ==
  linkInner(Task_map(T, inner, [k |-> "transferTaskErr", task |-> outer]), outer)

\* deinitTasks: each(vals, deinitTask)
deinitTasksFrom(T, vals, n) ==
  IF Stop(T) \/ n > Len(vals) THEN T
  ELSE deinitTasksFrom(IF isTask(vals[n]) THEN Task_deinit(T, vals[n].n) ELSE T,
                       vals, n + 1)

deinitTasks(T, vals) == deinitTasksFrom(T, vals, 1)

\* copyResult, lines 2-3 of its body: T is the state out.done left
copyResultReturn(T, err, val) ==
  IF Stop(T) THEN T ELSE IF Truthy(err) THEN Throw(T, err) ELSE Return(T, val)

copyResult(T, out, err, val) == copyResultReturn(Task_done(T, out, err, val), err, val)

\* onRaceElementDone, line 2 of its body: T is the state task.done left
onRaceElementDoneDeinit(T, list) ==
  IF Stop(T) THEN T ELSE Return(deinitTasks(T, list), Undef)

onRaceElementDone(T, task, list, err, val) ==
  onRaceElementDoneDeinit(Task_done(T, task, err, val), list)

\* a mapper, called with (err, val): returns in T.ret or throws in T.exc
callTaskFn(T, fun, err, val) ==
  CASE fun.k = "return" -> Return(T, fun.arg)
    [] fun.k = "throw" -> Throw(T, fun.arg)
    \* (err, val) => {if (err) throw err; return val}
    [] fun.k = "pass" -> IF Truthy(err) THEN Throw(T, err) ELSE Return(T, val)
    [] fun.k = "copyResult" -> copyResult(T, fun.out, err, val)
    [] fun.k = "onRaceElementDone" -> onRaceElementDone(T, fun.task, fun.inputs, err, val)
    [] fun.k = "transferTaskResult" -> Return(Task_done(T, fun.task, err, val), Undef)
    [] fun.k = "transferTaskErr" -> Return(Task_done(T, fun.task, Or(err, val), Undef), Undef)

\* done, the try and catch around fun(err, val): T is the state fun left
doneNext(T, id, fun, err, val) ==
  IF T.ovf THEN T
  ELSE doneLoop([T EXCEPT !.exc = NoExc,
                          !.tasks[id].calls =
                            Append(@, [fun |-> fun, err |-> err, val |-> val,
                                       outErr |-> IF Thrown(T) THEN T.exc ELSE Undef,
                                       outVal |-> IF Thrown(T) THEN Undef ELSE T.ret])],
                id,
                IF Thrown(T) THEN T.exc ELSE Undef,
                IF Thrown(T) THEN Undef ELSE T.ret)

\* done, the mapper taken off m and called
doneCall(T, id, fun, err, val) ==
  doneNext(callTaskFn(T, fun, err, val), id, fun, err, val)

\* done, the for (;;) loop and maybeThrow(err)
doneLoop(T, id, err, val) ==
  IF Stop(T) THEN T
  ELSE IF isTask(err) THEN linkInnerTaskErr(T, id, err.n)
  ELSE IF isTask(val) THEN linkInnerTask(T, id, val.n)
  ELSE IF T.tasks[id].m = <<>> THEN maybeThrow(T, err)
  ELSE doneCall([T EXCEPT !.tasks[id].m = Tail(@)], id, Head(T.tasks[id].m),
                IF Truthy(err) THEN err ELSE Undef,
                IF Truthy(err) THEN Undef ELSE val)

\* done, the finally block
doneFinally(T, id) ==
  IF T.ovf THEN T ELSE [T EXCEPT !.tasks[id].d = ~isTask(T.tasks[id].i)]

\* Task.prototype.done
Task_done(T, id, err, val) ==
  IF T.tasks[id].d THEN T
  ELSE doneFinally(
         doneLoop(clearInner([T EXCEPT !.tasks[id].d = TRUE, !.tasks[id].dones = @ + 1],
                             id),
                  id, err, val),
         id)

\* a deiniter
callDeiniter(T, fun) ==
  CASE fun.k = "deinit" -> Task_deinit(T, fun.out)
    [] fun.k = "deinitTasks" -> deinitTasks(T, fun.inputs)

\* deinit, the for (;;) loop
deinitLoop(T, id) ==
  IF Stop(T) \/ T.tasks[id].e = <<>> THEN T
  ELSE deinitLoop(callDeiniter([T EXCEPT !.tasks[id].e = Tail(@)], Head(T.tasks[id].e)), id)

\* deinit, the last line
deinitClearInner(T, id) == IF Stop(T) THEN T ELSE clearInner(T, id)

\* Task.prototype.deinit
Task_deinit(T, id) ==
  IF T.tasks[id].d THEN T
  ELSE deinitClearInner(
         deinitLoop([T EXCEPT !.tasks[id].d = TRUE, !.tasks[id].m = <<>>,
                              !.tasks[id].deinits = @ + 1],
                    id),
         id)

\* branch, the last two lines: T is the state task.map left
branchOnDeinit(T, task, out) ==
  IF Stop(T) THEN T
  ELSE Return(Task_onDeinit(T, task, [k |-> "deinit", out |-> out.n]), out)

\* branch: T holds the new task out in T.ret
branchMap(T, task) ==
  IF T.ovf THEN T
  ELSE branchOnDeinit(Task_map(T, task, [k |-> "copyResult", out |-> T.ret.n]),
                      task, T.ret)

\* export function branch(task)
branch(T, task) == branchMap(NewTask(T), task)

\* Scheduler: self.t, scheduleTick
Scheduler_t(T) ==
  IF ~T.s THEN [T EXCEPT !.s = TRUE, !.scheduled = @ + 1] ELSE T

\* Scheduler.prototype.push
Scheduler_push(T, task, err, val) ==
  Scheduler_t([T EXCEPT !.p = Append(@, [task |-> task, err |-> err, val |-> val])])

\* fromErr and fromVal: T holds the new task in T.ret
fromPush(T, err, val) ==
  IF T.ovf THEN T ELSE Return(Scheduler_push(T, T.ret.n, err, val), T.ret)

\* Scheduler.prototype.fromErr
Scheduler_fromErr(T, err) ==
  IF ~Truthy(err) THEN Throw(T, EXPECTED_ERROR) ELSE fromPush(NewTask(T), err, Undef)

\* Scheduler.prototype.fromVal
Scheduler_fromVal(T, val) == fromPush(NewTask(T), Undef, val)

RECURSIVE Scheduler_tick(_)
\* Scheduler.prototype.tick
Scheduler_tick(T) ==
  IF Stop(T) \/ T.p = <<>> THEN T
  \* D is the state task.done left, from which the loop goes on
  ELSE CHOOSE R \in {Scheduler_tick(D) :
                       D \in {Task_done([T EXCEPT !.p = Tail(@)],
                                        Head(T.p).task, Head(T.p).err, Head(T.p).val)}} : TRUE

\* function scheduledTick, run by the host
Scheduler_scheduledTick(T) ==
  Scheduler_tick([T EXCEPT !.s = FALSE, !.scheduled = @ - 1])

RECURSIVE raceMap(_, _, _, _)
\* race, the for loop: inputs[n].map(onDone)
raceMap(T, task, list, n) ==
  IF Stop(T) \/ n > Len(list) THEN T
  ELSE raceMap(Task_map(T, list[n].n,
                        [k |-> "onRaceElementDone", task |-> task, inputs |-> list]),
               task, list, n + 1)

\* race, the last two lines
raceOnDeinit(T, task, list) ==
  IF Stop(T) THEN T
  ELSE Return(Task_onDeinit(T, task, [k |-> "deinitTasks", inputs |-> list]), Tsk(task))

\* race: T holds the new task in T.ret
raceTask(T, list) ==
  IF T.ovf THEN T
  ELSE raceOnDeinit(raceMap(T, T.ret.n, list, 1), T.ret.n, list)

\* race, the branch of a list with a value that is not a task
raceNonTask(T, val) == IF Stop(T) THEN T ELSE Scheduler_fromVal(T, val)

\* export function race(inputs), src/posterus.mjs
raceOf(T, list) ==
  IF Len(list) = 0 THEN Scheduler_fromVal(T, Undef)
  ELSE IF \E n \in 1 .. Len(list) : ~isTask(list[n])
  THEN raceNonTask(deinitTasks(T, list),
                   list[CHOOSE n \in 1 .. Len(list) :
                            /\ ~isTask(list[n])
                            /\ \A j \in 1 .. n - 1 : isTask(list[j])])
  ELSE raceTask(NewTask(T), list)

(***************************************************************************)
(* The state machine.                                                      *)
(***************************************************************************)
Ids == 1 .. Len(fut)
\* the futures a caller can hold
Held == {t \in Ids : ~hist[t].internal}

Cur == [ fut |-> fut, hist |-> hist, queue |-> queue, sched |-> isScheduled,
         asap |-> asap, hook |-> hookThrows, cap |-> capacity,
         junc |-> junctures, fib |-> fibers, exc |-> NoExc,
         ovf |-> FALSE, ret |-> Undef, log |-> <<>>, pushed |-> <<>> ]

\* the futures a future owns: its predecessor chain
RECURSIVE Ancestors(_, _, _)
Ancestors(fs, id, seen) ==
  LET p == fs[id].predecessor
  IN IF p = 0 \/ p \in seen THEN seen ELSE Ancestors(fs, p, seen \cup {p})

NoLast == [op |-> "init", t |-> 0, exc |-> NoExc, pending |-> FALSE,
           mapper |-> FALSE, succ |-> 0, anc |-> {}, new |-> 0]

\* What the call on t meets, and the state it leaves.
Met(op, t, S) ==
  [ op |-> op, t |-> t, exc |-> S.exc,
    pending |-> IF t = 0 THEN FALSE ELSE fut[t].state = "Pending",
    mapper |-> IF t = 0 THEN FALSE ELSE fut[t].mapper # NoMapper,
    succ |-> IF t = 0 THEN 0 ELSE fut[t].successor,
    anc |-> IF t = 0 THEN {} ELSE Ancestors(fut, t, {}),
    new |-> IF Len(S.fut) > Len(fut) THEN Len(S.fut) ELSE 0 ]

Commit(op, t, S) ==
  /\ ~S.ovf
  /\ ops' = ops + 1
  /\ fut' = S.fut
  /\ hist' = S.hist
  /\ queue' = S.queue
  /\ isScheduled' = S.sched
  /\ asap' = S.asap
  /\ junctures' = S.junc
  /\ fibers' = S.fib
  /\ last' = Met(op, t, S)
  /\ UNCHANGED <<hookThrows, capacity, inputs, tasks, async>>

\* values a caller passes to Future.from: an error, or a result
FromArgs == {<<Val(1), Undef>>, <<Undef, Val(2)>>}

\* values a caller passes to settle: an error, a falsy or a truthy result, or
\* a future in either place
SettleArgs ==
  FromArgs \cup {<<Undef, Undef>>}
           \cup {<<Fut(j), Undef>> : j \in Held}
           \cup {<<Undef, Fut(j)>> : j \in Held}

\* functions a caller passes to map, mapError, mapResult and finally
UserMappers ==
  {[k |-> "map", fn |-> f, arg |-> Undef] : f \in {"fromResult", "fromError"}}
    \cup {[k |-> "map", fn |-> "ret", arg |-> Val(3)],
          [k |-> "mapError", fn |-> "ret", arg |-> Val(3)],
          [k |-> "mapResult", fn |-> "id", arg |-> Undef],
          [k |-> "finally", fn |-> "ret", arg |-> Undef]}
    \cup {[k |-> "finally", fn |-> "ret", arg |-> Fut(j)] : j \in Held}

Init ==
  /\ fut = <<>>
  /\ hist = <<>>
  /\ queue = <<>>
  /\ isScheduled = FALSE
  /\ asap = 0
  /\ hookThrows \in BOOLEAN
  /\ capacity = MaxTasks
  /\ junctures = <<>>
  /\ inputs = <<>>
  /\ fibers = <<>>
  /\ tasks = <<>>
  /\ async = NoAsync
  /\ last = NoLast
  /\ ops = 0

Construct == ops < MaxOps /\ Commit("new", 0, NewFuture(Cur))

From == ops < MaxOps /\ \E a \in FromArgs : Commit("from", 0, from(Cur, a[1], a[2]))

Settle == ops < MaxOps /\ \E t \in Held : \E a \in SettleArgs : Commit("settle", t, settle(Cur, t, a[1], a[2]))

Map == ops < MaxOps /\ \E t \in Held : \E m \in UserMappers : Commit("map", t, map(Cur, t, m))

Weak == ops < MaxOps /\ \E t \in Held : Commit("weak", t, weak(Cur, t))

Deinit == ops < MaxOps /\ \E t \in Held : Commit("deinit", t, deinit(Cur, t))

Deref == ops < MaxOps /\ \E t \in Held : Commit("deref", t, deref(Cur, t))

ToPromise == ops < MaxOps /\ \E t \in Held : Commit("toPromise", t, toPromise(Cur, t))

Tick == ops < MaxOps /\ Commit("tick", 0, tick(Cur))

ScheduledTick == ops < MaxOps /\ asap > 0 /\ Commit("scheduledTick", 0, scheduledTick(Cur))

Next ==
  \/ Construct
  \/ From
  \/ Settle
  \/ Map
  \/ Weak
  \/ Deinit
  \/ Deref
  \/ ToPromise
  \/ Tick
  \/ ScheduledTick

Spec == Init /\ [][Next]_vars

\* ---------------------------------------------------------------------------
\* Mappers that call back into the future they belong to, as in
\*   const t = p.map(function (error, result) {t.settle(a, b); return c})
\*   const t = p.map(function (error, result) {t.deinit(); throw c})
ReentrantMappers ==
  {[k |-> "reenter", call |-> "settle", with |-> a, fn |-> f, arg |-> Val(3)] :
     a \in FromArgs \cup {<<Undef, Fut(j)>> : j \in Held}, f \in {"ret", "throw"}}
    \cup {[k |-> "reenter", call |-> "deinit", with |-> <<Undef, Undef>>, fn |-> f,
           arg |-> Val(3)] : f \in {"ret", "throw"}}

MapReentrant == ops < MaxOps /\ \E t \in Held : \E m \in ReentrantMappers : Commit("map", t, map(Cur, t, m))

NextReentrant ==
  \/ Construct
  \/ From
  \/ Settle
  \/ MapReentrant
  \/ Deinit
  \/ Tick

SpecReentrant == Init /\ [][NextReentrant]_vars

\* ---------------------------------------------------------------------------
\* Construction from any value: Future.from, Future.fromError and
\* Future.fromResult given plain values, empty values and other futures.

FromValue == ops < MaxOps /\ \E a \in SettleArgs : Commit("from", 0, from(Cur, a[1], a[2]))

NextNested ==
  \/ FromValue
  \/ Tick

SpecNested == Init /\ [][NextNested]_vars

\* ---------------------------------------------------------------------------
\* Finalization: future.finally(fn) on futures made by Future.from*, in an
\* arena with room for the future a finalizer returns and for the one
\* mapFinally derives from it.

\* functions a caller passes to finally
Finalizers == {m \in UserMappers : m.k = "finally"}

InitFinally ==
  /\ fut = <<>>
  /\ hist = <<>>
  /\ queue = <<>>
  /\ isScheduled = FALSE
  /\ asap = 0
  /\ hookThrows \in BOOLEAN
  /\ capacity = MaxFinallyTasks
  /\ junctures = <<>>
  /\ inputs = <<>>
  /\ fibers = <<>>
  /\ tasks = <<>>
  /\ async = NoAsync
  /\ last = NoLast
  /\ ops = 0

Finally == ops < MaxOps /\ \E t \in Held : \E m \in Finalizers : Commit("finally", t, map(Cur, t, m))

NextFinally ==
  \/ From
  \/ Finally
  \/ Tick

SpecFinally == InitFinally /\ [][NextFinally]_vars

\* ---------------------------------------------------------------------------
\* Junctures: Future.all and Future.race over a list the caller has prepared.
\* Each element of the list is a plain value, a new future, or a future made
\* by Future.fromError or Future.fromResult; a future's error or result is
\* Val(its number), the plain value at position i is Val(-i).

InputKinds == {"plain", "new", "fromError", "fromResult"}

\* new Future().map(mapper): S holds the new future in S.ret
mapNew(S, mapper) == IF S.ovf THEN S ELSE map(S, S.ret.n, mapper)

RECURSIVE MakeInputs(_, _, _)
\* the heap after the elements from position i on are made
MakeInputs(S, kinds, i) ==
  IF i > Len(kinds) THEN S
  ELSE MakeInputs(
         CASE kinds[i] = "plain" -> S
           [] kinds[i] = "new" -> NewFuture(S)
           [] kinds[i] = "fromError" -> from(S, Val(Len(S.fut) + 1), Undef)
           [] kinds[i] = "fromResult" -> from(S, Undef, Val(Len(S.fut) + 1))
           \* new Future().map(() => 3)
           [] kinds[i] = "mapped" ->
                mapNew(NewFuture(S), [k |-> "map", fn |-> "ret", arg |-> Val(3)])
           \* new Future().mapResult(x => x)
           [] kinds[i] = "mappedResult" ->
                mapNew(NewFuture(S), [k |-> "mapResult", fn |-> "id", arg |-> Undef])
           \* const q = new Future(); q.map(() => q): the mapper returns a
           \* future that is consumed already
           [] kinds[i] = "mappedSelf" ->
                mapNew(NewFuture(S), [k |-> "map", fn |-> "ret", arg |-> Fut(Len(S.fut) + 1)]),
         kinds, i + 1)

RECURSIVE InputList(_, _, _)
\* the list itself; made is the number of futures made before position i
InputList(kinds, i, made) ==
  IF i > Len(kinds) THEN <<>>
  ELSE IF kinds[i] = "plain" THEN <<Val(-i)>> \o InputList(kinds, i + 1, made)
  ELSE IF kinds[i] \in {"mapped", "mappedResult", "mappedSelf"}
  THEN <<Fut(made + 2)>> \o InputList(kinds, i + 1, made + 2)
  ELSE <<Fut(made + 1)>> \o InputList(kinds, i + 1, made + 1)

\* the heap at module load
NoFutures(hook) ==
  [ fut |-> <<>>, hist |-> <<>>, queue |-> <<>>, sched |-> FALSE, asap |-> 0,
    hook |-> hook, cap |-> MaxJunctureTasks, junc |-> <<>>, fib |-> <<>>,
    exc |-> NoExc,
    ovf |-> FALSE, ret |-> Undef, log |-> <<>>, pushed |-> <<>> ]

InitJunctureWith(S, list) ==
  /\ fut = S.fut
  /\ hist = S.hist
  /\ queue = S.queue
  /\ isScheduled = S.sched
  /\ asap = S.asap
  /\ hookThrows = S.hook
  /\ capacity = S.cap
  /\ junctures = S.junc
  /\ inputs = list
  /\ fibers = <<>>
  /\ tasks = <<>>
  /\ async = NoAsync
  /\ last = NoLast
  /\ ops = 0

InitJuncture ==
  \E n \in 0 .. MaxInputs : \E kinds \in [1 .. n -> InputKinds] : \E hook \in BOOLEAN :
    InitJunctureWith(MakeInputs(NoFutures(hook), kinds, 1), InputList(kinds, 1, 0))

\* values a caller settles future t with: an error, or a result
InputArgs(t) == {<<Val(t), Undef>>, <<Undef, Val(t)>>}

SettleInput == ops < MaxJunctureOps /\ \E t \in Held : \E a \in InputArgs(t) : Commit("settle", t, settle(Cur, t, a[1], a[2]))

DeinitInput == ops < MaxJunctureOps /\ \E t \in Held : Commit("deinit", t, deinit(Cur, t))

TickJuncture == ops < MaxJunctureOps /\ Commit("tick", 0, tick(Cur))

All == ops < MaxJunctureOps /\ Commit("all", 0, all(Cur, inputs))

Race == ops < MaxJunctureOps /\ Commit("race", 0, race(Cur, inputs))

NextAll ==
  \/ SettleInput
  \/ DeinitInput
  \/ TickJuncture
  \/ All

SpecAll == InitJuncture /\ [][NextAll]_vars

NextRace ==
  \/ SettleInput
  \/ DeinitInput
  \/ TickJuncture
  \/ Race

SpecRace == InitJuncture /\ [][NextRace]_vars

\* ---------------------------------------------------------------------------
\* Future.all over lists of futures, mapped ones among them: an element is a
\* new future, one made by Future.fromError or Future.fromResult, or
\* new Future().map(() => 3) or new Future().mapResult(x => x), whose source
\* the caller keeps.
MappedInputKinds == {"new", "fromError", "fromResult", "mapped", "mappedResult"}

InitMapped ==
  \E n \in 0 .. MaxInputs : \E kinds \in [1 .. n -> MappedInputKinds] : \E hook \in BOOLEAN :
    InitJunctureWith(MakeInputs(NoFutures(hook), kinds, 1), InputList(kinds, 1, 0))

SettleMapped == ops < MaxMappedOps /\ \E t \in Held : \E a \in InputArgs(t) : Commit("settle", t, settle(Cur, t, a[1], a[2]))

DeinitMapped == ops < MaxMappedOps /\ \E t \in Held : Commit("deinit", t, deinit(Cur, t))

TickMapped == ops < MaxMappedOps /\ Commit("tick", 0, tick(Cur))

AllMapped == ops < MaxMappedOps /\ Commit("all", 0, all(Cur, inputs))

NextAllMapped ==
  \/ SettleMapped
  \/ DeinitMapped
  \/ TickMapped
  \/ AllMapped

SpecAllMapped == InitMapped /\ [][NextAllMapped]_vars

\* ---------------------------------------------------------------------------
\* Deinit of futures whose settling, finalizer or predecessor throws.  The
\* caller has made a list of futures: new ones, new Future().mapResult(x => x)
\* and q.map(() => q), whose mapper returns a consumed future so that settling
\* it throws.  It maps them with functions that return a future it holds,
\* asks for promises, passes the list to Future.all, deinits and ticks.
DeinitInputKinds == {"new", "mappedResult", "mappedSelf"}

InitDeinit ==
  \E n \in 0 .. MaxInputs : \E kinds \in [1 .. n -> DeinitInputKinds] : \E hook \in BOOLEAN :
    InitJunctureWith(MakeInputs([NoFutures(hook) EXCEPT !.cap = MaxDeinitTasks], kinds, 1),
                     InputList(kinds, 1, 0))

MapToFuture == ops < MaxDeinitOps /\ \E t \in Held : \E j \in Held : Commit("map", t, map(Cur, t, [k |-> "map", fn |-> "ret", arg |-> Fut(j)]))

ToPromiseChain == ops < MaxDeinitOps /\ \E t \in Held : Commit("toPromise", t, toPromise(Cur, t))

AllChain == ops < MaxDeinitOps /\ Commit("all", 0, all(Cur, inputs))

RaceChain == ops < MaxDeinitOps /\ Commit("race", 0, race(Cur, inputs))

DeinitChain == ops < MaxDeinitOps /\ \E t \in Held : Commit("deinit", t, deinit(Cur, t))

TickChain == ops < MaxDeinitOps /\ Commit("tick", 0, tick(Cur))

NextDeinit ==
  \/ MapToFuture
  \/ ToPromiseChain
  \/ AllChain
  \/ RaceChain
  \/ DeinitChain
  \/ TickChain

SpecDeinit == InitDeinit /\ [][NextDeinit]_vars

\* ---------------------------------------------------------------------------
\* Weak branches of one future.  The caller holds p = new Future(), alone or
\* with p.map(() => 3) behind it; it makes weak branches, maps, settles with
\* plain values, deinits and ticks.
WeakInputKinds == {"new", "mapped"}

InitWeak ==
  \E kinds \in [1 .. 1 -> WeakInputKinds] : \E hook \in BOOLEAN :
    InitJunctureWith(MakeInputs([NoFutures(hook) EXCEPT !.cap = MaxWeakTasks], kinds, 1),
                     InputList(kinds, 1, 0))

WeakBranch == ops < MaxWeakOps /\ \E t \in Held : Commit("weak", t, weak(Cur, t))

MapBranch == ops < MaxWeakOps /\ \E t \in Held : Commit("map", t, map(Cur, t, [k |-> "map", fn |-> "ret", arg |-> Val(3)]))

SettleBranch == ops < MaxWeakOps /\ \E t \in Held : \E a \in FromArgs : Commit("settle", t, settle(Cur, t, a[1], a[2]))

DeinitBranch == ops < MaxWeakOps /\ \E t \in Held : Commit("deinit", t, deinit(Cur, t))

TickBranch == ops < MaxWeakOps /\ Commit("tick", 0, tick(Cur))

NextWeak ==
  \/ WeakBranch
  \/ MapBranch
  \/ SettleBranch
  \/ DeinitBranch
  \/ TickBranch

SpecWeak == InitWeak /\ [][NextWeak]_vars

\* ---------------------------------------------------------------------------
\* The coroutine driver: the caller prepares the values the procedure will
\* yield (futures that are pending, failed or succeeded, and plain values),
\* calls fiber on the procedure once, settles and deinits the yielded futures,
\* deinits the future fiber returned, and ticks.
InitFiber ==
  \E n \in 0 .. MaxYields : \E kinds \in [1 .. n -> InputKinds] : \E hook \in BOOLEAN :
    InitJunctureWith(MakeInputs([NoFutures(hook) EXCEPT !.cap = MaxFiberTasks], kinds, 1),
                     InputList(kinds, 1, 0))

\* how the procedure ends: return 7, return x, throw 8, throw 0
Ends ==
  {[kind |-> "return", v |-> Val(7)], [kind |-> "last", v |-> Undef],
   [kind |-> "throw", v |-> Val(8)], [kind |-> "throw", v |-> Val(0)]}

\* the procedure that yields the prepared values in turn
Procedure(catches, end) ==
  Iterator([i \in 1 .. Len(inputs) |-> [yield |-> inputs[i], catch |-> catches[i]]], end)

Yielded == {inputs[i].n : i \in {j \in 1 .. Len(inputs) : isFuture(inputs[j])}}

Fiber == ops < MaxFiberOps /\ fibers = <<>> /\ \E catches \in [1 .. Len(inputs) -> BOOLEAN] : \E end \in Ends : Commit("fiber", 0, fiber(Cur, Procedure(catches, end)))

SettleYielded == ops < MaxFiberOps /\ \E t \in Yielded : \E a \in InputArgs(t) : Commit("settle", t, settle(Cur, t, a[1], a[2]))

DeinitFiber == ops < MaxFiberOps /\ \E t \in Held : Commit("deinit", t, deinit(Cur, t))

TickFiber == ops < MaxFiberOps /\ Commit("tick", 0, tick(Cur))

NextFiber ==
  \/ Fiber
  \/ SettleYielded
  \/ DeinitFiber
  \/ TickFiber

SpecFiber == InitFiber /\ [][NextFiber]_vars

\* ---------------------------------------------------------------------------
\* The Task implementation: a caller makes tasks (new Task, async.fromVal,
\* async.fromErr, branch, race), maps them, finishes and deinits them, and
\* flushes the scheduler.
CurTask ==
  [ tasks |-> tasks, p |-> async.p, s |-> async.s, scheduled |-> async.scheduled,
    cap |-> capacity, exc |-> NoExc, ovf |-> FALSE, ret |-> Undef ]

CommitTask(op, t, T) ==
  /\ ~T.ovf
  /\ ops' = ops + 1
  /\ tasks' = T.tasks
  /\ async' = [p |-> T.p, s |-> T.s, scheduled |-> T.scheduled]
  /\ last' = [NoLast EXCEPT !.op = op, !.t = t, !.exc = T.exc]
  /\ UNCHANGED <<fut, hist, queue, isScheduled, asap, hookThrows, capacity, junctures,
                 inputs, fibers>>

InitTask ==
  /\ fut = <<>>
  /\ hist = <<>>
  /\ queue = <<>>
  /\ isScheduled = FALSE
  /\ asap = 0
  /\ hookThrows = FALSE
  /\ capacity = MaxTaskObjects
  /\ junctures = <<>>
  /\ inputs = <<>>
  /\ fibers = <<>>
  /\ tasks = <<>>
  /\ async = NoAsync
  /\ last = NoLast
  /\ ops = 0

TaskIds == 1 .. Len(tasks)

\* functions a caller passes to map
TaskMappers ==
  {[k |-> "return", arg |-> Val(3)], [k |-> "throw", arg |-> Val(4)], [k |-> "pass"]}

\* values a caller passes to done: an error, a result, or another task in
\* either place
DoneArgs ==
  FromArgs \cup {<<Tsk(j), Undef>> : j \in TaskIds} \cup {<<Undef, Tsk(j)>> : j \in TaskIds}

\* lists a caller passes to race
RaceInputs ==
  {<<>>} \cup {<<Tsk(a)>> : a \in TaskIds}
         \cup {<<Tsk(a), Tsk(b)>> : a \in TaskIds, b \in TaskIds}
         \cup {<<Tsk(a), Val(5)>> : a \in TaskIds}

TaskNew == ops < MaxTaskOps /\ CommitTask("new", 0, NewTask(CurTask))

TaskFrom == ops < MaxTaskOps /\ \E a \in FromArgs : CommitTask("from", 0, IF Truthy(a[1]) THEN Scheduler_fromErr(CurTask, a[1]) ELSE Scheduler_fromVal(CurTask, a[2]))

TaskDone == ops < MaxTaskOps /\ \E t \in TaskIds : \E a \in DoneArgs : CommitTask("done", t, Task_done(CurTask, t, a[1], a[2]))

TaskMap == ops < MaxTaskOps /\ \E t \in TaskIds : \E fun \in TaskMappers : CommitTask("map", t, Task_map(CurTask, t, fun))

TaskDeinit == ops < MaxTaskOps /\ \E t \in TaskIds : CommitTask("deinit", t, Task_deinit(CurTask, t))

Branch == ops < MaxTaskOps /\ \E t \in TaskIds : CommitTask("branch", t, branch(CurTask, t))

RaceTasks == ops < MaxTaskOps /\ \E list \in RaceInputs : CommitTask("race", 0, raceOf(CurTask, list))

TaskTick == ops < MaxTaskOps /\ CommitTask("tick", 0, Scheduler_tick(CurTask))

TaskScheduledTick == ops < MaxTaskOps /\ async.scheduled > 0 /\ CommitTask("scheduledTick", 0, Scheduler_scheduledTick(CurTask))

NextTask ==
  \/ TaskNew
  \/ TaskFrom
  \/ TaskDone
  \/ TaskMap
  \/ TaskDeinit
  \/ Branch
  \/ RaceTasks
  \/ TaskTick
  \/ TaskScheduledTick

SpecTask == InitTask /\ [][NextTask]_vars

\* ---------------------------------------------------------------------------
\* The Task scheduler under a host that runs every callback it was asked
\* for.  The caller's calls are counted as above; the host's callback is not
\* the caller's and runs whenever one is outstanding.
HostCommit(T) ==
  /\ ~T.ovf
  /\ tasks' = T.tasks
  /\ async' = [p |-> T.p, s |-> T.s, scheduled |-> T.scheduled]
  /\ last' = [NoLast EXCEPT !.op = "scheduledTick", !.exc = T.exc]
  /\ UNCHANGED <<ops, fut, hist, queue, isScheduled, asap, hookThrows, capacity,
                 junctures, inputs, fibers>>

HostScheduledTick == async.scheduled > 0 /\ \E T \in {Scheduler_scheduledTick(CurTask)} : HostCommit(T)

NextTaskFair ==
  \/ TaskFrom
  \/ TaskMap
  \/ TaskTick
  \/ HostScheduledTick

SpecTaskFair == InitTask /\ [][NextTaskFair]_vars /\ WF_vars(HostScheduledTick)

(***************************************************************************)
(* Claims.                                                                 *)
(***************************************************************************)
Called(op) == last.op = op /\ last.t # 0
IsTick(l) == l.op \in {"tick", "scheduledTick"}

\* C1: a future's state changes at most once, from Pending to Error or to
\* Success; once it is settled no call changes its state or its value.
C1_SettlesOnce ==
  [][ /\ \A t \in Ids : SETTLED(fut[t]) =>
            /\ fut'[t].state = fut[t].state
            /\ fut'[t].value = fut[t].value
      /\ \A t \in 1 .. Len(fut') : hist'[t].settled <= 1 ]_vars

\* a settle call has been made on a future that was already settled
C1_Witness ==
  /\ Called("settle")
  /\ ~last.pending
  /\ last.exc = NoExc
  /\ hist[last.t].settled = 1

\* C2 as stated: deinit on a Pending future leaves it in Error with the
\* deinit error, and a settle call made right afterwards does not change it.
C2_DeinitSettlesWithError ==
  [][ /\ (last'.op = "deinit" /\ last'.pending) =>
            /\ fut'[last'.t].state = "Error"
            /\ isDeinitError(fut'[last'.t].value)
      /\ (last.op = "deinit" /\ last.pending /\ last'.op = "settle" /\ last'.t = last.t) =>
            fut'[last.t] = fut[last.t] ]_vars

\* C2 amended: deinit on a Pending future that holds no mapper and is not
\* running one leaves it in Error with the deinit error, and a settle call
\* made right afterwards does not change it.
C2_DeinitSettlesUnmapped ==
  [][ /\ (last'.op = "deinit" /\ last'.pending /\ ~last'.mapper
            /\ ~fut[last'.t].mapping) =>
            /\ fut'[last'.t].state = "Error"
            /\ isDeinitError(fut'[last'.t].value)
      /\ (last.op = "deinit" /\ last.pending /\ ~last.mapper
            /\ last'.op = "settle" /\ last'.t = last.t) =>
            fut'[last.t] = fut[last.t] ]_vars

\* a Pending future without a mapper has been deinited
C2_Witness ==
  /\ Called("deinit")
  /\ last.pending
  /\ ~last.mapper
  /\ isDeinitError(fut[last.t].value)

ReturnedFuture(a) ==
  /\ Len(hist[a].mcalls) > 0
  /\ LET out == hist[a].mcalls[Len(hist[a].mcalls)].out
     IN ~out.thrown /\ isFuture(out.v)

C5_MapConsumedThrows ==
  [][ (last'.op = "map" /\ fut[last'.t].consumed) =>
        /\ last'.exc = CONSUMABLE_ERROR
        /\ fut' = fut
        /\ queue' = queue ]_vars

\* map has been called on a future that already has a successor
C5_Witness ==
  /\ Called("map")
  /\ last.exc = CONSUMABLE_ERROR
  /\ last.succ # 0
  /\ fut[last.t].successor = last.succ

\* C4 as stated: deinit on a Pending future that has a successor leaves the
\* successor Pending, and the next tick calls the successor's mapper with the
\* deinit error.
C4_DownstreamOnTick ==
  [][ /\ (last'.op = "deinit" /\ last'.pending /\ last'.succ # 0
            /\ fut[last'.succ].state = "Pending") =>
            fut'[last'.succ].state = "Pending"
      /\ (last.op = "deinit" /\ last.pending /\ last.succ # 0
            /\ fut[last.succ].state = "Pending"
            /\ fut[last.succ].mapper # NoMapper
            /\ IsTick(last')) =>
            /\ Len(hist'[last.succ].mcalls) = Len(hist[last.succ].mcalls) + 1
            /\ isDeinitError(hist'[last.succ].mcalls[Len(hist'[last.succ].mcalls)].error) ]_vars

\* C4 amended: deinit on a Pending future that holds no mapper, is not
\* running one and has a Pending successor that is not also one of its
\* ancestors leaves the successor Pending and calls no mapper of it; if the
\* deinited future is then at the head of the scheduler queue, the next tick
\* calls the successor's mapper with the deinit error.
C4_DownstreamUnmapped ==
  [][ /\ (last'.op = "deinit" /\ last'.pending /\ ~last'.mapper /\ last'.succ # 0
            /\ ~fut[last'.t].mapping
            /\ last'.succ \notin last'.anc
            /\ fut[last'.succ].state = "Pending") =>
            /\ fut'[last'.succ].state = "Pending"
            /\ hist'[last'.succ].mcalls = hist[last'.succ].mcalls
      /\ (last.op = "deinit" /\ last.pending /\ ~last.mapper /\ last.succ # 0
            /\ last.succ \notin last.anc
            /\ fut[last.succ].state = "Pending"
            /\ fut[last.succ].mapper # NoMapper
            /\ queue # <<>> /\ Head(queue) = last.t
            /\ IsTick(last')) =>
            /\ Len(hist'[last.succ].mcalls) = Len(hist[last.succ].mcalls) + 1
            /\ isDeinitError(hist'[last.succ].mcalls[Len(hist'[last.succ].mcalls)].error) ]_vars

\* a deinited future's successor has caught the deinit error on a tick and
\* made a success of it
C4_Witness ==
  /\ IsTick(last)
  /\ \E t \in Ids : \E s \in Ids :
       /\ hist[t].deinited /\ isDeinitError(fut[t].value) /\ hist[t].mcalls = <<>>
       /\ fut[s].predecessor = t
       /\ hist[t].deliv = 1
       /\ Len(hist[s].mcalls) = 1
       /\ isDeinitError(hist[s].mcalls[1].error)
       /\ fut[s].state = "Success"

\* settle put an intermediary of its own between t and its successor s
Rerouted(t, s) ==
  LET n == fut'[t].successor
  IN /\ n # 0
     /\ hist'[n].internal
     /\ fut'[n].mapper.k \in {"errorSettle", "valueSettle"}
     /\ fut'[n].mapper.arg = Fut(s)

\* C6 as stated: a successor link of a settled future ends only by the
\* future forwarding its outcome, once, on a tick; until then the future is
\* queued, and a tick that returns leaves no settled future with a successor.
C6_DeliversExactlyOnce ==
  [][ /\ \A t \in Ids : (SETTLED(fut[t]) /\ fut[t].successor # 0) =>
            \/ /\ \/ fut'[t].successor = fut[t].successor
                  \/ Rerouted(t, fut[t].successor)
               /\ hist'[t].deliv = hist[t].deliv
               /\ \E i \in 1 .. Len(queue') : queue'[i] = t
            \/ /\ fut'[t].successor = 0
               /\ hist'[t].deliv = hist[t].deliv + 1
               /\ IsTick(last')
      /\ \A t \in 1 .. Len(fut') :
            hist'[t].deliv + (IF fut'[t].successor # 0 THEN 1 ELSE 0) <= hist'[t].links
      /\ (IsTick(last') /\ last'.exc = NoExc) =>
            /\ queue' = <<>>
            /\ \A t \in 1 .. Len(fut') : SETTLED(fut'[t]) => fut'[t].successor = 0 ]_vars

\* C7 as stated: map calls no mapper, and a mapper is called only during a
\* tick or a deinit.
C7_MapperOnlyOnTickOrDeinit ==
  [][ /\ last'.op = "map" => \A t \in 1 .. Len(hist') :
            hist'[t].mcalls = IF t \in Ids THEN hist[t].mcalls ELSE <<>>
      /\ (\E t \in Ids : hist'[t].mcalls # hist[t].mcalls) =>
            (IsTick(last') \/ last'.op = "deinit") ]_vars

\* C7 amended: map calls no mapper, and a mapper is called only during a
\* tick, a deinit or a settle.
C7_MapDefersMapper ==
  [][ /\ last'.op = "map" => \A t \in 1 .. Len(hist') :
            hist'[t].mcalls = IF t \in Ids THEN hist[t].mcalls ELSE <<>>
      /\ (\E t \in 1 .. Len(hist') : hist'[t].mcalls # (IF t \in Ids THEN hist[t].mcalls ELSE <<>>)) =>
            (IsTick(last') \/ last'.op \in {"deinit", "settle"}) ]_vars

\* map has been called on a settled future and has returned the new future,
\* whose mapper has not run
C7_Witness ==
  /\ Called("map")
  /\ ~last.pending
  /\ last.new # 0
  /\ fut[last.new].mapper # NoMapper
  /\ fut[last.new].predecessor = last.t
  /\ hist[last.new].mcalls = <<>>

\* C8 as stated: a second deinit on the same future, right after the first,
\* changes no future and calls no mapper and no finalizer.
C8_DeinitIdempotent ==
  [][ (last.op = "deinit" /\ last'.op = "deinit" /\ last'.t = last.t) =>
        /\ fut' = fut
        /\ \A t \in Ids : /\ hist'[t].mcalls = hist[t].mcalls
                          /\ hist'[t].fcalls = hist[t].fcalls ]_vars

Observed(t) == hist[t].mapped \/ hist[t].deinited \/ hist[t].peeked

\* C9 as stated: a future in Error that was flushed without having been
\* mapped, dereferenced, turned into a promise or deinited before has had the
\* hook called with it, and no future has had it called twice.
C9_UnhandledReported ==
  \A t \in Ids :
    /\ hist[t].hooks <= 1
    /\ (fut[t].state = "Error" /\ hist[t].flushed /\ ~Observed(t)) => hist[t].hooks = 1

\* C9 amended: the same, for a future that was not handed to another
\* future's settle before its flush either.
C9_UnconsumedReported ==
  \A t \in Ids :
    /\ hist[t].hooks <= 1
    /\ (fut[t].state = "Error" /\ hist[t].flushed /\ ~Observed(t) /\ ~hist[t].nested) =>
         hist[t].hooks = 1

\* the hook has been called with an unobserved future on its flush
C9_Witness ==
  /\ IsTick(last)
  /\ \E t \in Ids :
       /\ fut[t].state = "Error" /\ hist[t].flushed
       /\ ~Observed(t) /\ ~hist[t].nested
       /\ hist[t].hooks = 1

\* C10 as stated: the hook is never called with a future that was mapped or
\* deinited before its flush.
C10_HandledNotReported ==
  \A t \in Ids : (hist[t].mapped \/ hist[t].deinited) => hist[t].hooks = 0

\* the nested settle future o accepted last, if any
LastFlat(o) == hist[o].flats[Len(hist[o].flats)]

\* o was last settled with future i in the given slot, and i still is to
\* forward its outcome to o: directly, or through the intermediary settle made
Awaits(o, i, slot) ==
  /\ Len(hist[o].flats) > 0
  /\ LastFlat(o).slot = slot
  /\ LastFlat(o).of = i
  /\ \/ fut[i].successor = o
     \/ /\ fut[i].successor # 0
        /\ hist[fut[i].successor].internal
        /\ fut[fut[i].successor].mapper.k \in {"errorSettle", "valueSettle"}
        /\ fut[fut[i].successor].mapper.arg = Fut(o)

\* in this step i forwards its outcome
Forwards(i) == hist'[i].deliv = hist[i].deliv + 1

\* j is to forward its outcome to o: as predecessor, through an intermediary
\* settle made, or as weak parent
Feeds(j, o) ==
  \/ fut[j].successor = o
  \/ /\ fut[j].successor # 0
     /\ hist[fut[j].successor].internal
     /\ fut[fut[j].successor].mapper.k \in {"errorSettle", "valueSettle"}
     /\ fut[fut[j].successor].mapper.arg = Fut(o)
  \/ \E k \in 1 .. Len(fut[j].weaks) : fut[j].weaks[k] = o

\* o held no mapper when it was settled with i, and waits for i alone
WaitsOnlyFor(o, i) ==
  /\ ~LastFlat(o).mapped
  /\ \A j \in Ids \ {i} : ~Feeds(j, o)

C12_FlattensError ==
  [][ \A o \in Ids : \A i \in Ids :
        (fut[o].state = "Pending" /\ Awaits(o, i, "error")
           /\ WaitsOnlyFor(o, i) /\ Forwards(i)) =>
          /\ fut'[o].state = "Error"
          /\ fut'[o].value = fut[i].value ]_vars

\* ---------------------------------------------------------------------------
\* C13: the future returned by finally(fn) ends with the receiver's outcome,
\* the same state and the same value, when fn returns a plain value or a
\* future that succeeds.
FinallyOf(x) == fut[x].predecessor

C13_FinallyKeepsOutcome ==
  [][ \A x \in Ids :
        (/\ IsTick(last') /\ queue' = <<>>
         /\ fut[x].state = "Pending" /\ fut[x].mapper.k = "finally"
         /\ FinallyOf(x) # 0
         /\ SETTLED(fut[FinallyOf(x)]) /\ fut[FinallyOf(x)].successor = x
         /\ \/ fut[x].mapper.arg = Undef
            \/ /\ isFuture(fut[x].mapper.arg)
               /\ fut[fut[x].mapper.arg.n].state = "Success"
               /\ ~fut[fut[x].mapper.arg.n].consumed) =>
          /\ fut'[x].state = fut[FinallyOf(x)].state
          /\ fut'[x].value = fut[FinallyOf(x)].value ]_vars

\* ---------------------------------------------------------------------------
\* C14: when every input of Future.all has succeeded, the output future
\* succeeds with an array as long as the input list, holding at position i
\* the result of input future i or the plain value given at i, whatever the
\* order the inputs were settled in.  Checked at the call of Future.all and at
\* every tick that leaves the queue empty, for an output the caller has not
\* settled itself.
InputsSucceeded(fs, list) ==
  \A i \in 1 .. Len(list) : isFuture(list[i]) => fs[list[i].n].state = "Success"

ResultsOf(fs, list) ==
  [i \in 1 .. Len(list) |-> IF isFuture(list[i]) THEN fs[list[i].n].value ELSE list[i]]

\* juncture k is made by this call of Future.all or Future.race
Made(k) == last'.op \in {"all", "race"} /\ k > Len(junctures)

\* juncture k was waiting with its output pending, and this tick empties the
\* queue
Flushed(k) ==
  /\ last'.op = "tick" /\ queue' = <<>>
  /\ k <= Len(junctures)
  /\ junctures[k].live /\ fut[junctures[k].out].state = "Pending"

C14_AllResolvesInOrder ==
  [][ \A k \in 1 .. Len(junctures') :
        (/\ junctures'[k].kind = "all"
         /\ Made(k) \/ Flushed(k)
         /\ ~hist'[junctures'[k].out].internal
         /\ InputsSucceeded(fut', junctures'[k].input)) =>
          /\ fut'[junctures'[k].out].state = "Success"
          /\ fut'[junctures'[k].out].value = Arr(k)
          /\ junctures'[k].values = ResultsOf(fut', junctures'[k].input) ]_vars

\* two input futures were settled after the call, and the output holds their
\* results in input order
C14_Witness ==
  /\ last.op = "tick"
  /\ \E k \in 1 .. Len(junctures) :
       /\ junctures[k].kind = "all"
       /\ Len(junctures[k].input) = MaxInputs
       /\ \A i \in 1 .. MaxInputs :
            /\ isFuture(junctures[k].input[i])
            /\ hist[junctures[k].input[i].n].fcalls # <<>>
       /\ fut[junctures[k].out].state = "Success"
       /\ fut[junctures[k].out].value = Arr(k)
       /\ junctures[k].values = ResultsOf(fut, junctures[k].input)
       /\ junctures[k].values[1] # junctures[k].values[MaxInputs]

\* ---------------------------------------------------------------------------
\* C15: when an input of Future.all is in Error, the output future ends in
\* Error with the first error observed (the first failed input in input order
\* at the call, the first failed input the scheduler flushes afterwards),
\* every input that was still pending is deinited, and the output does not
\* change afterwards.
InputFutures(k) == {v.n : v \in {junctures'[k].input[i] : i \in 1 .. Len(junctures'[k].input)} \cap {Fut(t) : t \in 1 .. Len(fut')}}

Failed(fs, t) == fs[t].state = "Error"

\* the first input of juncture k, in input order, that is a failed future
FirstFailedInput(k) ==
  LET list == junctures'[k].input
      i == CHOOSE i \in 1 .. Len(list) :
             /\ isFuture(list[i]) /\ Failed(fut, list[i].n)
             /\ \A m \in 1 .. i - 1 : ~(isFuture(list[m]) /\ Failed(fut, list[m].n))
  IN list[i].n

\* the first failed input of juncture k in the scheduler's queue
FirstFailedQueued(k) ==
  LET n == CHOOSE n \in 1 .. Len(queue) :
             /\ queue[n] \in InputFutures(k) /\ Failed(fut, queue[n])
             /\ \A m \in 1 .. n - 1 : ~(queue[m] \in InputFutures(k) /\ Failed(fut, queue[m]))
  IN queue[n]

\* the output of juncture k is left waiting for future e, given as an error
AwaitsError(k, e) ==
  /\ fut'[junctures'[k].out].state = "Pending"
  /\ Len(hist'[junctures'[k].out].flats) > 0
  /\ hist'[junctures'[k].out].flats[Len(hist'[junctures'[k].out].flats)] =
       [slot |-> "error", of |-> e, mapped |-> FALSE]

PendingInputsDeinited(k) ==
  \A t \in InputFutures(k) :
    (t <= Len(fut) /\ fut[t].state = "Pending") =>
      fut'[t].state = "Error" /\ isDeinitError(fut'[t].value)

C15_AllFailsWithFirstError ==
  [][ \A k \in 1 .. Len(junctures') :
        (junctures'[k].kind = "all" /\ ~hist'[junctures'[k].out].internal) =>
          \* the call meets a failed input
          /\ (Made(k) /\ \E t \in InputFutures(k) : t <= Len(fut) /\ Failed(fut, t)) =>
               /\ AwaitsError(k, FirstFailedInput(k))
               /\ PendingInputsDeinited(k)
          \* a tick flushes a failed input
          /\ (/\ last'.op = "tick" /\ queue' = <<>> /\ k <= Len(junctures)
              /\ junctures[k].live /\ fut[junctures[k].out].state = "Pending"
              /\ \E n \in 1 .. Len(queue) :
                   queue[n] \in InputFutures(k) /\ Failed(fut, queue[n])) =>
               /\ fut'[junctures'[k].out].state = "Error"
               /\ fut'[junctures'[k].out].value = fut[FirstFailedQueued(k)].value
               /\ PendingInputsDeinited(k)
          \* a tick delivers the error the output is waiting for
          /\ (/\ last'.op = "tick" /\ queue' = <<>> /\ k <= Len(junctures)
              /\ ~junctures[k].live /\ fut[junctures[k].out].state = "Pending"
              /\ Len(hist[junctures[k].out].flats) > 0
              /\ LastFlat(junctures[k].out).slot = "error"
              /\ LastFlat(junctures[k].out).of \in InputFutures(k)) =>
               /\ fut'[junctures'[k].out].state = "Error"
               /\ fut'[junctures'[k].out].value = fut[LastFlat(junctures[k].out).of].value
          \* afterwards the output does not change
          /\ (k <= Len(junctures) /\ fut[junctures[k].out].state = "Error") =>
               /\ fut'[junctures'[k].out].state = "Error"
               /\ fut'[junctures'[k].out].value = fut[junctures[k].out].value ]_vars

\* ---------------------------------------------------------------------------
\* C16: deinit of the output future of Future.all, while the juncture is still
\* waiting for inputs, deinits every input future that is still pending: each
\* ends in Error with the deinit error.
C16_AllDeinitDeinitsInputs ==
  [][ \A k \in 1 .. Len(junctures) :
        (/\ junctures[k].kind = "all"
         /\ last'.op = "deinit" /\ last'.t = junctures[k].out
         /\ junctures[k].live /\ junctures[k].pending > 0) =>
          /\ ~junctures'[k].live
          /\ PendingInputsDeinited(k) ]_vars

\* the output was deinited while every input was pending
C16_Witness ==
  /\ last.op = "deinit"
  /\ \E k \in 1 .. Len(junctures) :
       /\ junctures[k].kind = "all" /\ last.t = junctures[k].out
       /\ ~junctures[k].live /\ junctures[k].pending = MaxInputs
       /\ Len(junctures[k].input) = MaxInputs
       /\ \A i \in 1 .. MaxInputs :
            /\ isFuture(junctures[k].input[i])
            /\ hist[junctures[k].input[i].n].deinited
            /\ fut[junctures[k].input[i].n].state = "Error"
            /\ isDeinitError(fut[junctures[k].input[i].n].value)

\* ---------------------------------------------------------------------------
\* C17: when the list given to Future.race holds an input that is already
\* settled, a plain value counting as settled, the output future takes the
\* outcome of the first such input in input order: at once for a plain value
\* or a future in Success, on the tick that delivers it for a future in
\* Error.
Settled(v) == ~isFuture(v) \/ SETTLED(fut[v.n])

\* the first settled element of the list of juncture k
FirstSettled(k) ==
  LET list == junctures'[k].input
  IN list[CHOOSE i \in 1 .. Len(list) :
            Settled(list[i]) /\ \A m \in 1 .. i - 1 : ~Settled(list[m])]

C17_RaceFirstSettledWins ==
  [][ \A k \in 1 .. Len(junctures') :
        (junctures'[k].kind = "race" /\ ~hist'[junctures'[k].out].internal) =>
          /\ (Made(k) /\ \E i \in 1 .. Len(junctures'[k].input) :
                           Settled(junctures'[k].input[i])) =>
               IF ~isFuture(FirstSettled(k))
               THEN /\ fut'[junctures'[k].out].state = "Success"
                    /\ fut'[junctures'[k].out].value = FirstSettled(k)
               ELSE IF fut[FirstSettled(k).n].state = "Success"
               THEN /\ fut'[junctures'[k].out].state = "Success"
                    /\ fut'[junctures'[k].out].value = fut[FirstSettled(k).n].value
               ELSE AwaitsError(k, FirstSettled(k).n)
          /\ (/\ last'.op = "tick" /\ queue' = <<>> /\ k <= Len(junctures)
              /\ ~junctures[k].live /\ fut[junctures[k].out].state = "Pending"
              /\ Len(hist[junctures[k].out].flats) > 0
              /\ LastFlat(junctures[k].out).slot = "error"
              /\ LastFlat(junctures[k].out).of \in InputFutures(k)) =>
               /\ fut'[junctures'[k].out].state = "Error"
               /\ fut'[junctures'[k].out].value = fut[LastFlat(junctures[k].out).of].value ]_vars

\* ---------------------------------------------------------------------------
\* C18: when an input of Future.race produces the outcome, every input future
\* that was still pending is deinited; the output future is settled at most
\* once, a tick that ends the race gives it the outcome of the first input
\* waiting in the scheduler's queue, and nothing a losing input does changes
\* it afterwards.
\* the first input of juncture k in the scheduler's queue
FirstQueued(k) ==
  queue[CHOOSE n \in 1 .. Len(queue) :
          /\ queue[n] \in InputFutures(k)
          /\ \A m \in 1 .. n - 1 : queue[m] \notin InputFutures(k)]

C18_RaceDeinitsLosers ==
  [][ \A k \in 1 .. Len(junctures') :
        (junctures'[k].kind = "race" /\ ~hist'[junctures'[k].out].internal) =>
          /\ ((Made(k) \/ (k <= Len(junctures) /\ junctures[k].live))
                /\ ~junctures'[k].live) => PendingInputsDeinited(k)
          /\ hist'[junctures'[k].out].settled <= 1
          /\ (/\ last'.op = "tick" /\ k <= Len(junctures)
              /\ junctures[k].live /\ fut[junctures[k].out].state = "Pending"
              /\ ~junctures'[k].live
              /\ \E n \in 1 .. Len(queue) : queue[n] \in InputFutures(k)) =>
               /\ fut'[junctures'[k].out].state = fut[FirstQueued(k)].state
               /\ fut'[junctures'[k].out].value = fut[FirstQueued(k)].value
          /\ (k <= Len(junctures) /\ SETTLED(fut[junctures[k].out])) =>
               /\ fut'[junctures'[k].out].state = fut[junctures[k].out].state
               /\ fut'[junctures'[k].out].value = fut[junctures[k].out].value ]_vars

\* a tick ended a race between two futures: one won with its result, the other
\* was deinited
C18_Witness ==
  /\ last.op = "tick"
  /\ \E k \in 1 .. Len(junctures) :
       /\ junctures[k].kind = "race" /\ ~junctures[k].live
       /\ Len(junctures[k].input) = MaxInputs
       /\ \A i \in 1 .. MaxInputs : isFuture(junctures[k].input[i])
       /\ \E w \in 1 .. MaxInputs : \E l \in 1 .. MaxInputs :
            /\ fut[junctures[k].input[w].n].state = "Success"
            /\ hist[junctures[k].input[w].n].fcalls # <<>>
            /\ fut[junctures[k].out].state = "Success"
            /\ fut[junctures[k].out].value = fut[junctures[k].input[w].n].value
            /\ hist[junctures[k].out].settled = 1
            /\ hist[junctures[k].input[l].n].deinited
            /\ isDeinitError(fut[junctures[k].input[l].n].value)

\* ---------------------------------------------------------------------------
\* C19: on a tick that empties the queue, every weak branch of a settled
\* future that is still pending and that the caller has not settled with
\* another future takes the parent's outcome: the same state and the same
\* value, whether the branch was made before or after the parent settled.
WeakBranches(p) == {fut[p].weaks[n] : n \in 1 .. Len(fut[p].weaks)}

C19_WeaksTakeOutcome ==
  [][ \A p \in Ids : \A b \in WeakBranches(p) :
        (/\ last'.op = "tick" /\ queue' = <<>>
         /\ SETTLED(fut[p])
         /\ fut[b].state = "Pending" /\ hist[b].flats = <<>>) =>
          /\ fut'[b].state = fut[p].state
          /\ fut'[b].value = fut[p].value
          /\ fut'[p].state = fut[p].state
          /\ fut'[p].value = fut[p].value ]_vars

\* a branch made while the parent was pending has taken the parent's outcome
C19_Witness ==
  /\ last.op = "tick"
  /\ \E b \in Ids :
       /\ hist[b].weakOf # 0 /\ hist[b].early
       /\ Len(hist[b].recv) = 1
       /\ SETTLED(fut[b])
       /\ fut[b].state = fut[hist[b].weakOf].state
       /\ fut[b].value = fut[hist[b].weakOf].value

\* ---------------------------------------------------------------------------
\* C20: deinit of a weak branch that the caller has not settled with another
\* future leaves its parent and every other future as they are: the parent
\* keeps its state, its value and its list of branches and is not deinited,
\* so the other branches are still to receive its outcome.
C20_WeakDeinitLeavesParent ==
  [][ \A b \in Ids :
        (/\ last'.op = "deinit" /\ last'.t = b
         /\ hist[b].weakOf # 0 /\ hist[b].flats = <<>>) =>
          \A t \in Ids \ {b} :
            /\ fut'[t] = fut[t]
            /\ hist'[t].deinited = hist[t].deinited
            /\ hist'[t].settled = hist[t].settled ]_vars

\* a branch was deinited while its parent and a sibling branch were pending
C20_Witness ==
  /\ last.op = "deinit"
  /\ hist[last.t].weakOf # 0
  /\ last.pending
  /\ isDeinitError(fut[last.t].value)
  /\ fut[hist[last.t].weakOf].state = "Pending"
  /\ ~hist[hist[last.t].weakOf].deinited
  /\ \E s \in WeakBranches(hist[last.t].weakOf) \ {last.t} : fut[s].state = "Pending"

\* ---------------------------------------------------------------------------
\* C21: deinit of a future that is already settled leaves its state and its
\* value as they are, and the future keeps its successor and its weak
\* branches, unchanged and still pending, and its place in the queue; when
\* it is flushed they receive its own outcome, not a deinit error.  Stated
\* for the successors and branches that the caller has not settled with
\* another future and that are not also among the future's own predecessors:
\* a caller who settles a future with its own successor closes a chain on
\* itself, and deinit follows the predecessors.
Outcome(f) ==
  [ error |-> IF f.state = "Error" THEN f.value ELSE Undef,
    result |-> IF f.state = "Error" THEN Undef ELSE f.value ]

InQueue(q, t) == \E n \in 1 .. Len(q) : q[n] = t

\* what the future last took in: the arguments of its mapper if it held one,
\* else the outcome it stored
Received(S, s, had) ==
  IF had THEN [ error |-> S.hist[s].mcalls[Len(S.hist[s].mcalls)].error,
                result |-> S.hist[s].mcalls[Len(S.hist[s].mcalls)].result ]
  ELSE Outcome(S.fut[s])

C21_SettledDeinitKeepsOutcome ==
  [][ \A t \in Ids :
        (last'.op = "deinit" /\ last'.t = t /\ SETTLED(fut[t])) =>
          /\ fut'[t].state = fut[t].state
          /\ fut'[t].value = fut[t].value
          /\ fut'[t].successor = fut[t].successor
          /\ fut'[t].weaks = fut[t].weaks
          /\ (fut[t].successor # 0 \/ fut[t].weaks # <<>>) => InQueue(queue', t)
          /\ \A s \in ({fut[t].successor} \cup WeakBranches(t)) \ {0} :
               (/\ fut[s].state = "Pending" /\ ~fut[s].mapping
                /\ hist[s].flats = <<>>
                /\ s \notin Ancestors(fut, t, {})) =>
                 /\ fut'[s] = fut[s]
                 /\ \/ finishPending(Cur', t).ovf
                    \/ Received(finishPending(Cur', t), s, fut[s].mapper # NoMapper)
                         = Outcome(fut[t]) ]_vars

\* a settled future with a pending successor or a pending weak branch was
\* deinited before the tick
C21_Witness ==
  /\ last.op = "deinit"
  /\ ~last.pending
  /\ fut[last.t].state \in {"Error", "Success"}
  /\ ~isDeinitError(fut[last.t].value)
  /\ \E s \in ({fut[last.t].successor} \cup WeakBranches(last.t)) \ {0} :
       fut[s].state = "Pending"

\* ---------------------------------------------------------------------------
\* C22: a tick that returns normally has flushed the futures that were
\* queued, in the order of the queue, and after them the futures pushed while
\* it ran, in the order they were pushed; it leaves the queue empty, and a
\* tick called right after it changes nothing.
Flush(l) == IF l.op = "tick" THEN tick(Cur) ELSE scheduledTick(Cur)

C22_TickDrainsInOrder ==
  [][ (IsTick(last') /\ last'.exc = NoExc) =>
        /\ Flush(last').log = queue \o Flush(last').pushed
        /\ queue' = <<>>
        /\ tick(Cur') = Cur' ]_vars

\* a tick has flushed a future and then the weak branch that this flush
\* settled and pushed
C22_Witness ==
  /\ IsTick(last) /\ last.exc = NoExc
  /\ queue = <<>>
  /\ \E b \in Ids :
       /\ hist[b].weakOf # 0 /\ hist[b].early
       /\ hist[hist[b].weakOf].flushed
       /\ Len(hist[b].recv) = 1
       /\ hist[b].pushes = 1
       /\ hist[b].flushed

\* ---------------------------------------------------------------------------
\* C23: when a flush throws during a tick (the unhandled-rejection hook
\* throws), the tick stops there and its caller gets the exception; the
\* futures not yet flushed stay queued in their order, and when any is left
\* a host callback is pending, so a scheduledTick will flush them.
Reported(t) == hist'[t].hooks > (IF t \in Ids THEN hist[t].hooks ELSE 0)
FlushThrew == hookThrows /\ \E t \in 1 .. Len(fut') : Reported(t)

C23_TickThrowKeepsQueue ==
  [][ (IsTick(last') /\ FlushThrew) =>
        /\ \E t \in 1 .. Len(fut') : Reported(t) /\ last'.exc = fut'[t].value
        /\ Flush(last').log \o queue' = queue \o Flush(last').pushed
        /\ queue' # <<>> => (isScheduled' /\ asap' > 0) ]_vars

\* a tick has thrown with a future still queued and the callback armed
C23_Witness ==
  /\ last.op = "tick" /\ last.exc # NoExc
  /\ queue # <<>>
  /\ isScheduled /\ asap > 0
  /\ \E t \in Ids : hist[t].hooks = 1 /\ last.exc = fut[t].value

\* ---------------------------------------------------------------------------
\* C29 as stated: in every state, settle called on a future with the future
\* itself as the error or as the result throws the cyclic-chain error and
\* leaves the futures, the queue and the scheduler as they were.
SelfArgs(t) == {<<Fut(t), Undef>>, <<Undef, Fut(t)>>, <<Val(1), Fut(t)>>}

Untouched(S) ==
  /\ S.fut = fut
  /\ S.queue = queue
  /\ S.sched = isScheduled
  /\ S.asap = asap
  /\ \A t \in Ids : S.hist[t].settled = hist[t].settled

C29_SelfSettleRejected ==
  \A t \in Held : \A a \in SelfArgs(t) :
    /\ settle(Cur, t, a[1], a[2]).exc = CYCLIC_ERROR
    /\ Untouched(settle(Cur, t, a[1], a[2]))

\* C29, amended: the call throws the cyclic-chain error when the future is
\* pending; on a settled future it returns without an exception, as every
\* settle call on a settled future does.  In both cases it leaves the
\* futures, the queue and the scheduler as they were.
C29_SelfSettleRejectedWhilePending ==
  \A t \in Held : \A a \in SelfArgs(t) :
    /\ settle(Cur, t, a[1], a[2]).exc
         = IF fut[t].state = "Pending" THEN CYCLIC_ERROR ELSE NoExc
    /\ Untouched(settle(Cur, t, a[1], a[2]))

\* settle was called on a pending future with the future itself and threw
C29_Witness ==
  /\ Called("settle")
  /\ last.exc = CYCLIC_ERROR
  /\ last.pending
  /\ fut[last.t].state = "Pending"

\* ---------------------------------------------------------------------------
\* C30: a pending future that has a successor keeps it until it forwards its
\* outcome to it: no call replaces the successor by another future (other
\* than by a forwarder to the same successor), and map called on such a
\* future throws the consumable error.
C30_SingleConsumer ==
  [][ \A t \in Ids : (fut[t].state = "Pending" /\ fut[t].successor # 0) =>
        /\ \/ fut'[t].successor = fut[t].successor
           \/ Rerouted(t, fut[t].successor)
           \/ /\ fut'[t].successor = 0
              /\ hist'[t].deliv = hist[t].deliv + 1
        /\ (last'.op = "map" /\ last'.t = t) => last'.exc = CONSUMABLE_ERROR ]_vars

\* ---------------------------------------------------------------------------
\* C28: a settle or deinit call that a future's mapper makes on the future
\* itself changes no future, pushes nothing and throws nothing, and the
\* future ends with what the mapper returned or threw: settled once, in
\* Success with the returned value or in Error with the thrown one.
Reentered(t) ==
  /\ t \in 1 .. Len(fut')
  /\ Len(hist'[t].reentered) > (IF t \in Ids THEN Len(hist[t].reentered) ELSE 0)

LastCall(t) == hist'[t].mcalls[Len(hist'[t].mcalls)]

C28_MappingIgnoresCalls ==
  [][ \A t \in 1 .. Len(fut') : Reentered(t) =>
        /\ \A n \in 1 .. Len(hist'[t].reentered) :
             ~hist'[t].reentered[n].changed /\ ~hist'[t].reentered[n].threw
        /\ Len(hist'[t].mcalls) = 1
        /\ hist'[t].settled = 1
        /\ fut'[t].state = (IF LastCall(t).out.thrown THEN "Error" ELSE "Success")
        /\ fut'[t].value = LastCall(t).out.v
        /\ fut'[t].value = Val(3)
        /\ ~fut'[t].mapping ]_vars

\* two mappers have called back into their own futures: one then returned,
\* the other threw
C28_Witness ==
  \E t \in Ids : \E u \in Ids :
    /\ Len(hist[t].reentered) = 1 /\ Len(hist[u].reentered) = 1
    /\ fut[t].state = "Success" /\ fut[u].state = "Error"
    /\ t # u

\* ---------------------------------------------------------------------------
\* C24: the driver hands each yielded value back to the procedure: a plain
\* value as it is, a task's result when the task succeeded, and a task's
\* error, thrown at the yield, when it failed; a procedure that catches the
\* error goes on.  After a tick that empties the queue the procedure is not
\* left suspended on a settled task, and once it has finished the output task
\* is settled: in Success with the value it returned, or in Error with the
\* exception it threw or did not catch.  Stated for runs in which the output
\* task has not been deinited.
Driven == Len(fibers) = 1 /\ fibers[1].ret # 0 /\ ~hist[fibers[1].ret].deinited

\* what the resumption after yield n handed in is what yield n produced
ResumedWith(it, n) ==
  LET y == it.prog[n].yield
      g == it.got[n + 1]
  IN IF ~isFuture(y) THEN g = [how |-> "next", v |-> y]
     ELSE /\ g.v = fut[y.n].value
          /\ g.how = (IF fut[y.n].state = "Error" THEN "catch" ELSE "next")
          /\ SETTLED(fut[y.n])
          /\ g.how = "catch" => it.prog[n].catch

\* the outcome the procedure ended with
Final(it) ==
  IF it.pc > Len(it.prog)
  THEN CASE it.end.kind = "return" -> [state |-> "Success", value |-> it.end.v]
         [] it.end.kind = "last" -> [state |-> "Success", value |-> it.got[Len(it.got)].v]
         [] it.end.kind = "throw" -> [state |-> "Error", value |-> it.end.v]
  ELSE [state |-> "Error", value |-> fut[it.prog[it.pc].yield.n].value]

C24_FiberDrives ==
  Driven =>
    LET it == fibers[1].iter
        out == fut[fibers[1].ret]
    IN /\ ~it.returned
       /\ \A n \in 1 .. Len(it.got) - 1 : ResumedWith(it, n)
       /\ SETTLED(out) =>
            /\ it.done
            /\ out.state = Final(it).state
            /\ out.value = Final(it).value
       /\ (last.op = "tick" /\ last.exc = NoExc) =>
            /\ it.done => SETTLED(out)
            /\ ~it.done => /\ it.pc \in 1 .. Len(it.prog)
                           /\ isFuture(it.prog[it.pc].yield)
                           /\ fut[it.prog[it.pc].yield.n].state = "Pending"

\* ---------------------------------------------------------------------------
\* C25: when deinit is called on the pending output task of the driver and
\* returns, the procedure has finished, the task it was suspended on has been
\* deinited, and no yielded task is left with a pending successor (the
\* driver waiting for it) unless that task has been deinited.
Awaited(fs, y) == fs[y].successor # 0 /\ fs[fs[y].successor].state = "Pending"

C25_FiberDeinitStops ==
  [][ (/\ Len(fibers) = 1 /\ fibers[1].ret # 0
       /\ last'.op = "deinit" /\ last'.t = fibers[1].ret
       /\ fut[fibers[1].ret].state = "Pending") =>
        /\ fibers'[1].iter.done
        /\ fibers'[1].pending = 0
        /\ \A y \in Yielded :
             (fibers[1].pending # 0 /\ fut[y].successor = fibers[1].pending) =>
               hist'[y].deinited \/ hist[y].flushed
        /\ \A y \in Yielded : Awaited(fut', y) => hist'[y].deinited ]_vars

\* ---------------------------------------------------------------------------
\* C26: in a step in which an input of race finishes and its
\* onRaceElementDone finishes the race task (the race task was not done
\* before), every other input of that race is done or deinited when the step
\* ends, whatever went in and whatever mappers the race task holds.
NewCalls(a) ==
  {n \in 1 .. Len(tasks'[a].calls) : n > Len(tasks[a].calls)}

Decides(c) ==
  /\ c.fun.k = "onRaceElementDone"
  /\ ~tasks[c.fun.task].d
  /\ tasks'[c.fun.task].dones = tasks[c.fun.task].dones + 1

C26_TaskRaceDeinitsLosers ==
  [][ \A a \in TaskIds : \A n \in NewCalls(a) :
        Decides(tasks'[a].calls[n]) =>
          \A j \in 1 .. Len(tasks'[a].calls[n].fun.inputs) :
            tasks'[tasks'[a].calls[n].fun.inputs[j].n].d ]_vars

\* ---------------------------------------------------------------------------
\* C27: a branch is transparent to the original task: every call of a
\* branch's copyResult among the original's mappers hands on the error or
\* the value it was called with, so the original's next mapper (or the
\* caller of done, when there is none) receives what it would have received
\* without the branch.
C27_BranchKeepsOutcome ==
  \A t \in TaskIds : \A n \in 1 .. Len(tasks[t].calls) :
     tasks[t].calls[n].fun.k = "copyResult" =>
       /\ tasks[t].calls[n].outErr = tasks[t].calls[n].err
       /\ tasks[t].calls[n].outVal = tasks[t].calls[n].val

\* ---------------------------------------------------------------------------
\* C31: a future's finalizer is called at most once, the pair it was called
\* with is the outcome the future holds, and a settled future that still
\* holds its finalizer is in the scheduler's queue, so the call is still to
\* come.
C31_FinalizerOnce ==
  \A t \in Ids :
     /\ Len(hist[t].fcalls) <= 1
     /\ Len(hist[t].fcalls) = 1 =>
          /\ SETTLED(fut[t])
          /\ hist[t].fcalls[1] = Outcome(fut[t])
     /\ (SETTLED(fut[t]) /\ fut[t].finalizer # NoFinalizer) => InQueue(queue, t)

\* ---------------------------------------------------------------------------
\* C32: once an input's error has settled the juncture of Future.all, deinit
\* has been called on every input future that was pending then, and the
\* function the caller gave to map or mapResult to make that input is not
\* called, then or later.
ShortCircuited == {k \in 1 .. Len(junctures) : junctures[k].kind = "all" /\ junctures[k].short}

\* the calls of the mapper of a waiting input since the juncture was settled
CallsSince(w) == {n \in 1 .. Len(hist[w.t].mcalls) : n > w.calls}

\* those in which the caller's function ran
RunsSince(w) ==
  {n \in CallsSince(w) : w.mapper = "map" \/ ~Truthy(hist[w.t].mcalls[n].error)}

C32_AllShortCircuitSparesMappers ==
  \A k \in ShortCircuited : \A w \in junctures[k].waiting :
     /\ hist[w.t].deinited
     /\ RunsSince(w) = {}

\* C32, amended: deinit has been called on every input future that was
\* pending; an input that held no mapper or one made by mapResult is in
\* Error with the deinit error and its function was not called; the mapper of
\* an input made by map was called once, with the deinit error.
C32_AllShortCircuitDeinitsInputs ==
  \A k \in ShortCircuited : \A w \in junctures[k].waiting :
     /\ hist[w.t].deinited
     /\ w.mapper # "map" =>
          /\ fut[w.t].state = "Error" /\ isDeinitError(fut[w.t].value)
          /\ RunsSince(w) = {}
     /\ w.mapper = "map" =>
          /\ Cardinality(CallsSince(w)) = 1
          /\ \A n \in CallsSince(w) : isDeinitError(hist[w.t].mcalls[n].error)

\* Future.all met a failed input while an input made by map was pending: the
\* pending input was deinited and its mapper was called with the deinit error
C32_Witness ==
  \E k \in ShortCircuited : \E w \in junctures[k].waiting :
     /\ w.mapper = "map"
     /\ hist[w.t].deinited
     /\ Cardinality(CallsSince(w)) = 1
     /\ \A n \in CallsSince(w) : isDeinitError(hist[w.t].mcalls[n].error)

\* ---------------------------------------------------------------------------
\* C33: when deinit of a future throws, the steps after the one that threw
\* were still made: the finalizer the future held was called, deinit was
\* called on the predecessor it had, and on every future it was chained to
\* while it was settled.
Threw(l) == l.op = "deinit" /\ l.exc # NoExc

\* deinit has been called on future p in this step, or was before
DeinitCalled(p) == hist'[p].deinited \/ hist[p].flushed

\* the futures t was settled with in this step
NewlyAwaited(t) ==
  {hist'[t].flats[n].of : n \in {n \in 1 .. Len(hist'[t].flats) : n > Len(hist[t].flats)}}

C33_DeinitThrowRunsAllSteps ==
  [][ Threw(last') =>
        /\ fut[last'.t].finalizer # NoFinalizer =>
             /\ fut'[last'.t].finalizer = NoFinalizer
             /\ Len(hist'[last'.t].fcalls) = Len(hist[last'.t].fcalls) + 1
        /\ fut[last'.t].predecessor # 0 => DeinitCalled(fut[last'.t].predecessor)
        /\ \A f \in NewlyAwaited(last'.t) : DeinitCalled(f)
        /\ fut'[last'.t].predecessor = 0 ]_vars

\* deinit of a future threw because deinit of its predecessor threw (settling
\* the predecessor failed and left it pending); the future had been chained
\* to another future while it was settled, and that one was deinited all the
\* same
C33_Witness ==
  /\ Threw(last)
  /\ fut[last.t].state = "Pending"
  /\ \E a \in last.anc : fut[a].state = "Pending" /\ hist[a].deinited
  /\ Len(hist[last.t].flats) = 1
  /\ hist[hist[last.t].flats[1].of].deinited
  /\ fut[hist[last.t].flats[1].of].state = "Error"
  /\ isDeinitError(fut[hist[last.t].flats[1].of].value)

\* ---------------------------------------------------------------------------
\* C34: a mapper registered by map is called at most once, whatever the order
\* of settle, deinit and tick on the future and its relatives. A future gets
\* its mapper from the map call that made it and from nowhere else; the only
\* other mapper a future can come to hold is alwaysThrow, which settle installs
\* itself (line 188) on a future settled with a future in the error slot. So:
\* no future has had more than one call of a mapper other than alwaysThrow, and
\* after such a call the future holds no mapper registered by map.
MapCalls(t) == {n \in 1 .. Len(hist[t].called) : hist[t].called[n] # "alwaysThrow"}

C34_MapperAtMostOnce ==
  \A t \in Ids :
     /\ Len(hist[t].called) = Len(hist[t].mcalls)
     /\ Cardinality(MapCalls(t)) <= 1
     /\ MapCalls(t) # {} => fut[t].mapper \in {NoMapper, alwaysThrow}

\* a future made by map on a settled future was deinited, its mapper saw the
\* deinit error, and a later tick flushed the predecessor's own outcome
\* towards it
C34_Witness ==
  /\ IsTick(last)
  /\ \E t \in Ids : \E p \in Ids \ {t} :
       /\ hist[t].deinited
       /\ Len(hist[t].mcalls) = 1
       /\ isDeinitError(hist[t].mcalls[1].error)
       /\ hist[p].mapped /\ hist[p].flushed /\ hist[p].deliv = 1
       /\ SETTLED(fut[p]) /\ ~isDeinitError(fut[p].value)

\* ---------------------------------------------------------------------------
\* C35: at most one host callback of the scheduler is outstanding at any
\* time, and the scheduled flag is set exactly while one is. A step requests
\* a callback only with the flag clear at the request: the number outstanding
\* grows only from a state with the flag clear, and a scheduledTick that asks
\* again does so after it cleared the flag itself. The flag is cleared by no
\* step but the host running the callback (scheduledTick): a synchronous
\* tick that drains the queue leaves it set.
C35_OneHostCallback ==
  [][ /\ asap <= 1 /\ asap' <= 1
      /\ (isScheduled <=> asap = 1) /\ (isScheduled' <=> asap' = 1)
      /\ asap' > asap => ~isScheduled
      /\ (isScheduled /\ ~isScheduled') => last'.op = "scheduledTick"
      /\ (isScheduled /\ last'.op # "scheduledTick") =>
            (isScheduled' /\ asap' = asap) ]_vars

\* a synchronous tick flushed every queued future while the callback was
\* outstanding: the queue is empty, the flag is still set and the one
\* callback is still to run
C35_Witness ==
  /\ last.op = "tick" /\ last.exc = NoExc
  /\ queue = <<>>
  /\ isScheduled /\ asap = 1
  /\ \E t \in Ids : hist[t].flushed /\ hist[t].pushes >= 1

\* ---------------------------------------------------------------------------
\* C36: a tick that returns normally settles every future of a chain of map
\* steps whose root is settled and whose mappers return a plain value or
\* throw, and leaves the queue empty. A future is on such a chain when it is
\* settled (the root), or is the successor of a future on the chain and holds
\* a mapper whose function returns a value that is not a future, or throws.
PlainMapper(m) ==
  /\ m.k \in {"map", "mapError", "mapResult", "finally"}
  /\ m.fn \in {"ret", "throw", "id", "rethrow"}
  /\ ~isFuture(m.arg)

RECURSIVE OnPlainChain(_, _)
OnPlainChain(t, n) ==
  \/ SETTLED(fut[t])
  \/ /\ n > 0
     /\ fut[t].predecessor # 0
     /\ fut[fut[t].predecessor].successor = t
     /\ PlainMapper(fut[t].mapper)
     /\ OnPlainChain(fut[t].predecessor, n - 1)

C36_TickSettlesChain ==
  [][ (IsTick(last') /\ last'.exc = NoExc) =>
        /\ queue' = <<>>
        /\ \A t \in Ids : OnPlainChain(t, Len(fut)) => SETTLED(fut'[t]) ]_vars

\* a tick has settled a chain of two map steps from a settled root: the
\* root was flushed, both mappers were called, and all three are settled
C36_Witness ==
  /\ IsTick(last) /\ last.exc = NoExc
  /\ queue = <<>>
  /\ \E r \in Ids : \E a \in Ids \ {r} : \E b \in Ids \ {r, a} :
       /\ hist[r].mcalls = <<>> /\ hist[r].deliv = 1
       /\ hist[a].called \in {<<"map">>, <<"mapError">>}
       /\ hist[a].deliv = 1
       /\ hist[b].called \in {<<"mapResult">>, <<"finally">>}
       /\ hist[b].flushed
       /\ \A t \in {r, a, b} : SETTLED(fut[t])
       /\ ~hist[a].deinited /\ ~hist[b].deinited

\* ---------------------------------------------------------------------------
\* C37: a flush notifies the successor first and then the weak branches in
\* the order of their creation, whether they were made before or after the
\* future settled. Notifying is calling settle; a pending future with no
\* mapper, or with one that returns a plain value, is settled by the call and
\* enters the scheduler's queue in it, so the order of the notifications of a
\* tick is the order in which the notified futures were queued during it.
\* Futures are numbered as they are made: of two weak branches of one future
\* the one with the smaller number is the older. In every tick, when a pending
\* weak branch w of p is queued, every older pending weak branch of p and p's
\* pending successor were queued before it.
QueuedAt(P, x) == {n \in 1 .. Len(P) : P[n] = x}
QueuedBefore(P, x, y) ==
  /\ QueuedAt(P, x) # {}
  /\ \A n \in QueuedAt(P, y) : \E m \in QueuedAt(P, x) : m < n

WeakOrder(P) ==
  \A w \in Ids :
    (hist[w].weakOf # 0 /\ fut[w].state = "Pending" /\ QueuedAt(P, w) # {}) =>
       LET p == hist[w].weakOf
           s == fut[p].successor
       IN /\ \A v \in Ids :
               (hist[v].weakOf = p /\ v < w /\ fut[v].state = "Pending") =>
                  QueuedBefore(P, v, w)
          /\ (s # 0 /\ fut[s].state = "Pending" /\ PlainMapper(fut[s].mapper)) =>
                  QueuedBefore(P, s, w)

WrapperCall(t, k) == hist[t].called = <<k>> /\ Len(hist[t].mcalls) = 1

C38_WrappersSkipOtherSlot ==
  \A t \in Ids :
    LET c == hist[t].mcalls[1]
    IN /\ (WrapperCall(t, "mapResult") /\ Truthy(c.error)) =>
            /\ c.out = [thrown |-> TRUE, v |-> c.error]
            /\ fut[t].state = "Error" /\ fut[t].value = c.error
       /\ (WrapperCall(t, "mapError") /\ ~Truthy(c.error)) =>
            /\ c.out = [thrown |-> FALSE, v |-> c.result]
            /\ fut[t].state = "Success" /\ fut[t].value = c.result
       /\ (WrapperCall(t, "mapError") /\ Truthy(c.error)) =>
            /\ c.out = [thrown |-> FALSE, v |-> Val(3)]
            /\ fut[t].state = "Success" /\ fut[t].value = Val(3)

\* Future.fromError(e).mapResult(x => x).mapError(() => 3) after a tick: the
\* first future has the error e, untouched, and the second has 3 as result
C38_Witness ==
  \E r \in Ids : \E a \in Ids : \E b \in Ids :
    /\ fut[r].state = "Error" /\ hist[r].mcalls = <<>> /\ hist[r].deliv = 1
    /\ ~isDeinitError(fut[r].value)
    /\ WrapperCall(a, "mapResult") /\ hist[a].mcalls[1].error = fut[r].value
    /\ fut[a].state = "Error" /\ fut[a].value = fut[r].value
    /\ WrapperCall(b, "mapError") /\ hist[b].mcalls[1].error = fut[r].value
    /\ fut[b].state = "Success" /\ fut[b].value = Val(3)

\* ---------------------------------------------------------------------------
\* C39: when the output of Future.all or Future.race is deinited while the
\* juncture holds its list (values_), forceEach calls deinit on every future
\* of the list, once, whether or not an earlier one threw; and when a deinit
\* threw, the caller gets the exception caught last, so it comes after the
\* whole list was gone through.
NewForced(t) == SubSeq(hist'[t].forced, Len(hist[t].forced) + 1, Len(hist'[t].forced))

ListFutures(k) ==
  {n \in 1 .. Len(junctures[k].values) : isFuture(junctures[k].values[n])}

ForcedThrew(k) ==
  {n \in ListFutures(k) : NewForced(junctures[k].values[n].n) # <<NoExc>>}

JunctureDeinited(k) ==
  /\ last'.op = "deinit" /\ last'.t = junctures[k].out
  /\ junctures[k].live
  /\ fut[junctures[k].out].state = "Pending"
  /\ fut[junctures[k].out].finalizer # NoFinalizer

C39_ForceEachAttemptsAll ==
  [][ \A k \in 1 .. Len(junctures) :
        JunctureDeinited(k) =>
          /\ \A n \in ListFutures(k) :
               /\ Len(NewForced(junctures[k].values[n].n)) = 1
               /\ DeinitCalled(junctures[k].values[n].n)
          /\ ForcedThrew(k) # {} =>
               \E n \in ForcedThrew(k) :
                 /\ \A m \in ForcedThrew(k) : m <= n
                 /\ last'.exc = NewForced(junctures[k].values[n].n)[1] ]_vars

\* the output of Future.all was deinited; the deinit of the first input
\* threw and left it pending, the second input was deinited all the same,
\* and the caller got the exception
C39_Witness ==
  /\ last.op = "deinit" /\ last.exc = CONSUMABLE_ERROR
  /\ \E k \in 1 .. Len(junctures) :
       /\ junctures[k].kind = "all" /\ last.t = junctures[k].out
       /\ ~junctures[k].live
       /\ Len(junctures[k].values) = 2
       /\ \A n \in 1 .. 2 : isFuture(junctures[k].values[n])
       /\ hist[junctures[k].values[1].n].forced = <<CONSUMABLE_ERROR>>
       /\ fut[junctures[k].values[1].n].state = "Pending"
       /\ hist[junctures[k].values[2].n].forced = <<NoExc>>
       /\ fut[junctures[k].values[2].n].state = "Error"
       /\ isDeinitError(fut[junctures[k].values[2].n].value)

\* ---------------------------------------------------------------------------
\* C40 as stated: with a host that runs every callback it was asked for, and
\* with no help from further calls, every entry pushed to the Task scheduler
\* leaves the queue, which it does only in tick, by task.done(err, val) being
\* called with it. fromErr and fromVal push a new task each, so the task
\* names the entry.
Queued(t) == \E n \in 1 .. Len(async.p) : async.p[n].task = t

C40_PushedEventuallyDone ==
  \A t \in 1 .. MaxTaskObjects : Queued(t) ~> ~Queued(t)
====
